---- MODULE Spec2Model ----
(***************************************************************************)
(* Positioning engine of the DWM3001CDK python wrapper                     *)
(* (src/python_wrapper/example_usage.py): the per-beacon distance windows  *)
(* of DistanceCollector, the reader thread and the report loop that share  *)
(* them, and the two-beacon solver of PositionCalculator.                  *)
(*                                                                         *)
(* Units.  Time is counted in tenths of a second; distances and            *)
(* coordinates are in metres, kept exactly.                                *)
(***************************************************************************)
EXTENDS Integers, Sequences, FiniteSets, TLC

(***************************************************************************)
(* Exact arithmetic.  A Python float is modelled by the real number it     *)
(* stands for.  A rational is a record [num, den] in lowest terms with a   *)
(* positive denominator.                                                   *)
(***************************************************************************)
Abs(i) == IF i < 0 THEN -i ELSE i

Sign(i) == IF i < 0 THEN -1 ELSE IF i = 0 THEN 0 ELSE 1

RECURSIVE Gcd(_, _)
Gcd(a, b) == IF b = 0 THEN a ELSE Gcd(b, a % b)

\* the quotient n / d (d # 0)
Rat(n, d) ==
    LET g == Gcd(Abs(n), Abs(d))
        s == IF d < 0 THEN -1 ELSE 1
    IN  [num |-> (s * n) \div g, den |-> (s * d) \div g]

\* the values that are numbers (Python floats), as opposed to None
IsNumber(v) == v \in [num : Int, den : Int]

RInt(i) == Rat(i, 1)
\* (common factors are taken out before multiplying, to keep the integers small)
RAdd(a, b) ==
    LET g == Gcd(a.den, b.den)
    IN  Rat(a.num * (b.den \div g) + b.num * (a.den \div g), (a.den \div g) * b.den)
RSub(a, b) == RAdd(a, [num |-> -b.num, den |-> b.den])
RMul(a, b) ==
    LET g1 == Gcd(Abs(a.num), b.den)
        g2 == Gcd(Abs(b.num), a.den)
    IN  Rat((a.num \div g1) * (b.num \div g2), (a.den \div g2) * (b.den \div g1))
\* a / b for b # 0
RDiv(a, b) == RMul(a, Rat(b.den, b.num))
RLt(a, b) == a.num * b.den < b.num * a.den
RLe(a, b) == a.num * b.den <= b.num * a.den
RSign(a) == Sign(a.num)
RAbs(a) == Rat(Abs(a.num), a.den)

\* the integer square root
ISqrt(n) == CHOOSE k \in 0..n : k * k <= n /\ n < (k + 1) * (k + 1)
IsSquare(n) == n >= 0 /\ ISqrt(n) * ISqrt(n) = n

(***************************************************************************)
(* A real number rat + sgn * sqrt(rad), with rad a rational that is not    *)
(* the square of a rational when sgn # 0 (and rad = 0 when sgn = 0): the   *)
(* numbers the solver meets, its square roots included, kept exactly.      *)
(***************************************************************************)
Real(rat, sgn, rad) ==
    IF sgn = 0 \/ rad.num = 0 THEN [rat |-> rat, sgn |-> 0, rad |-> RInt(0)]
    ELSE IF IsSquare(rad.num) /\ IsSquare(rad.den)
    THEN [rat |-> RAdd(rat, Rat(sgn * ISqrt(rad.num), ISqrt(rad.den))),
          sgn |-> 0, rad |-> RInt(0)]
    ELSE [rat |-> rat, sgn |-> sgn, rad |-> rad]

FromRat(r) == Real(r, 0, RInt(0))

\* math.sqrt(q) for a rational q >= 0
SqrtOf(q) == Real(RInt(0), 1, q)

\* v * v for a v that is a rational or a bare root
Square(v) == IF v.sgn = 0 THEN RMul(v.rat, v.rat) ELSE v.rad

\* the sign of v
RealSign(v) ==
    IF v.sgn = 0 THEN RSign(v.rat)
    ELSE IF RSign(v.rat) = 0 \/ RSign(v.rat) = v.sgn THEN v.sgn
    ELSE IF RLt(v.rad, RMul(v.rat, v.rat)) THEN RSign(v.rat)
    ELSE v.sgn

RealNeg(v) == [rat |-> Rat(-v.rat.num, v.rat.den), sgn |-> -v.sgn, rad |-> v.rad]
RealAbs(v) == IF RealSign(v) < 0 THEN RealNeg(v) ELSE v
\* v + r and v * r for a rational r
RealAddRat(v, r) == Real(RAdd(v.rat, r), v.sgn, v.rad)
RealMulRat(v, r) ==
    Real(RMul(v.rat, r), v.sgn * RSign(r), RMul(v.rad, RMul(r, r)))
\* v / w for v, w each a rational or a bare root, w # 0
RootDiv(v, w) ==
    IF v.sgn = 0 /\ w.sgn = 0 THEN FromRat(RDiv(v.rat, w.rat))
    ELSE Real(RInt(0), RealSign(v) * RealSign(w), RDiv(Square(v), Square(w)))

(***************************************************************************)
(* Configuration parameters (example_usage.py lines 21-25).                *)
(***************************************************************************)
\* REPORT_INTERVAL_SECONDS = 2.0, in tenths of a second
REPORT_INTERVAL_SECONDS == 20
\* DISTANCE_TIMEOUT_SECONDS = 5.0, in tenths of a second
DISTANCE_TIMEOUT_SECONDS == 50
\* AVERAGING_WINDOW_SECONDS = 2.0, in tenths of a second
AVERAGING_WINDOW_SECONDS == 20

\* BEACON1_POSITION = (0.0, 0.0) and BEACON2_POSITION = (2.0, 0.0), in metres
BEACON1_POSITION == <<RInt(0), RInt(0)>>
BEACON2_POSITION == <<RInt(2), RInt(0)>>

(***************************************************************************)
(* Bounds of the model.                                                    *)
(***************************************************************************)
\* how many record calls one behaviour of the sequential specification makes
MaxRecords == 3

\* solver inputs: beacon and tag coordinates are the integers 0..MaxCoord
\* (metres), distances the multiples of 0.5 m from -0.5 to MaxHalves / 2
MaxCoord == 2
MaxHalves == 7

\* how many lines the tag process delivers in one behaviour of the system
MaxLines == 2

\* how many entries the "results" of a line has at most, where all lines up
\* to a length are tried
MaxEntries == 2

\* how far time.time() goes, in seconds, while an animator is watched
MaxElapsed == 4

\* how many messages a reporter sends at most
MaxMessages == 3

\* the values time.time() returns in the model (tenths of a second): they
\* hold two instants exactly one window apart (1, 21), two exactly one
\* timeout apart (21, 71), and the instants 0.0, 1.0, 2.1 of the eviction
\* scenario
Instants == {0, 1, 10, 21, 71}

\* the D_cm values a ranging result carries (centimetres)
DcmValues == {40, 140}

BeaconNums == {1, 2}

\* Python's None
None == [none |-> TRUE]

\* distance_m = distance_cm / 100.0
distance_m(distance_cm) == Rat(distance_cm, 100)

\* the distances (metres) a record call carries
Distances == {distance_m(c) : c \in DcmValues}

(***************************************************************************)
(* State.                                                                  *)
(***************************************************************************)
VARIABLES
    beacon1_distances,  \* DistanceCollector.beacon1_distances: list of <<timestamp, distance>>
    beacon2_distances,  \* DistanceCollector.beacon2_distances
    clock,              \* the value time.time() returned last
    anchor,             \* sequential use: the beacon the calls of this behaviour address
    recorded,           \* history: every <<timestamp, distance>> recorded for it, in call order
    last,               \* history: the last call made on the collector and what it returned
    calc,               \* a PositionCalculator, the call made on it and what it returned
    reporter,           \* an AzureIoTReporter: client, connected, message_count; the hub it sends to
    collector,          \* a DWM3001Collector running start_tag: where it is, what it has printed
    animator,           \* a KeyframeAnimator: its configuration and animation state
    tag_collector,      \* DistanceCollector: running, process, thread, averaging_window
    system,             \* PositioningSystem: running, beacon1_process, beacon2_process
    main,               \* the main thread: where it is in start / _position_reporter / stop, its locals
    reader,             \* the reader thread (_read_output): where it is, its locals
    lines_read,         \* how many lines the tag process has delivered
    sink                \* what the logging calls have emitted: the last report, reports of this tick, errors;
                        \* history: the samples appended to each list, in order

aggVars == <<beacon1_distances, beacon2_distances>>
seqVars == <<clock, anchor, recorded, last>>
sysVars == <<tag_collector, system, main, reader, lines_read, sink>>
toolVars == <<collector, animator>>
vars == <<aggVars, seqVars, calc, reporter, toolVars, sysVars>>

\* the list the code selects with "if beacon_num == 1 ... elif beacon_num == 2"
distance_list(beacon_num) ==
    IF beacon_num = 1 THEN beacon1_distances ELSE beacon2_distances

(***************************************************************************)
(* DistanceCollector._cleanup_old_measurements: pop from the front while   *)
(* the front sample is older than the cutoff.                              *)
(***************************************************************************)
RECURSIVE PopWhileOlder(_, _)
PopWhileOlder(list, cutoff_time) ==
    IF list # <<>> /\ list[1][1] < cutoff_time
    THEN PopWhileOlder(Tail(list), cutoff_time)
    ELSE list

\* a clean-up that also pops a sample whose age equals the window ("<=" for "<")
RECURSIVE PopWhileNotNewer(_, _)
PopWhileNotNewer(list, cutoff_time) ==
    IF list # <<>> /\ list[1][1] <= cutoff_time
    THEN PopWhileNotNewer(Tail(list), cutoff_time)
    ELSE list

cleanup_at_or_before_cutoff(list, current_time) ==
    PopWhileNotNewer(list, current_time - tag_collector.averaging_window)

cleanup_old_measurements(list, current_time) ==
    PopWhileOlder(list, current_time - tag_collector.averaging_window)

(***************************************************************************)
(* DistanceCollector._add_distance_measurement: append, then clean up with *)
(* the new sample's own timestamp as the current time.                     *)
(***************************************************************************)
\* a record that appends and does not clean up
add_without_cleanup(list, timestamp, distance) ==
    Append(list, <<timestamp, distance>>)

add_distance_measurement(list, timestamp, distance) ==
    cleanup_old_measurements(Append(list, <<timestamp, distance>>), timestamp)

(***************************************************************************)
(* DistanceCollector.get_averaged_distance run without interruption: the   *)
(* list after its clean-up and the value it returns.                       *)
(***************************************************************************)
RECURSIVE SumDist(_)
SumDist(list) ==
    IF list = <<>> THEN RInt(0) ELSE RAdd(list[1][2], SumDist(Tail(list)))

\* an average that never looks at the age of the latest sample
averaged_distance_without_timeout(list, current_time) ==
    LET cleaned == cleanup_old_measurements(list, current_time)
    IN  [list |-> cleaned,
         result |-> IF cleaned = <<>> THEN None
                    ELSE RDiv(SumDist(cleaned), RInt(Len(cleaned)))]

averaged_distance(list, current_time) ==
    LET cleaned == cleanup_old_measurements(list, current_time)
        latest_time == cleaned[Len(cleaned)][1]
        total_distance == SumDist(cleaned)
        count == Len(cleaned)
    IN  [list |-> cleaned,
         result |->
            IF cleaned = <<>> THEN None
            ELSE IF (current_time - latest_time) > DISTANCE_TIMEOUT_SECONDS THEN None
            ELSE IF count > 0 THEN RDiv(total_distance, RInt(count)) ELSE None]

\* DistanceCollector.get_measurement_count
get_measurement_count(beacon_num) ==
    IF beacon_num = 1 THEN Len(beacon1_distances)
    ELSE IF beacon_num = 2 THEN Len(beacon2_distances)
    ELSE 0

(***************************************************************************)
(* PositionCalculator.calculate_position.  Positions are pairs <<x, y>>;   *)
(* dist1 and dist2 are reals, each a rational or the square root of one.   *)
(***************************************************************************)
\* d: abs(x2 - x1) when y1 == y2, else math.sqrt((x2 - x1)**2 + (y2 - y1)**2)
beacon_distance(beacon1_pos, beacon2_pos) ==
    LET x1 == beacon1_pos[1]  y1 == beacon1_pos[2]
        x2 == beacon2_pos[1]  y2 == beacon2_pos[2]
    IN  IF y1 = y2 THEN FromRat(RAbs(RSub(x2, x1)))
        ELSE SqrtOf(RAdd(RMul(RSub(x2, x1), RSub(x2, x1)),
                         RMul(RSub(y2, y1), RSub(y2, y1))))

\* A = (d**2 - dist2**2 + dist1**2) / (2 * d), for d # 0
trilateration_A(d, dist1, dist2) ==
    RootDiv(FromRat(RAdd(RSub(Square(d), Square(dist2)), Square(dist1))),
            RealMulRat(d, RInt(2)))

\* a discriminant with the sign of A**2 slipped
discriminant_sum(dist1, A) == RAdd(Square(dist1), Square(A))

\* discriminant = dist1**2 - A**2
discriminant(dist1, A) == RSub(Square(dist1), Square(A))

\* a validity test that lets a zero distance through
distances_negative(dist1, dist2) == RealSign(dist1) < 0 \/ RealSign(dist2) < 0

\* line 190: dist1 <= 0 or dist2 <= 0
distances_invalid(dist1, dist2) == RealSign(dist1) <= 0 \/ RealSign(dist2) <= 0

\* what the body of the try statement ends in: a return value, or an
\* exception raised
Returns(value) == [raises |-> "", value |-> value]
Raises(exception) == [raises |-> exception, value |-> None]

\* lines 194-229, the body of the try statement
trilaterate(beacon1_pos, beacon2_pos, dist1, dist2) ==
    LET x1 == beacon1_pos[1]  y1 == beacon1_pos[2]
        x2 == beacon2_pos[1]  y2 == beacon2_pos[2]
        d == beacon_distance(beacon1_pos, beacon2_pos)
    IN  \* 2 * d == 0: the division at line 206 raises
        IF RealSign(d) = 0 THEN Raises("ZeroDivisionError")
        ELSE
        LET A == trilateration_A(d, dist1, dist2)
            disc == discriminant(dist1, A)
        IN  IF RSign(disc) < 0 THEN Returns(None)
            ELSE
            LET H == SqrtOf(disc)
                x == RealAddRat(RootDiv(RealMulRat(A, RSub(x2, x1)), d), x1)
                y == IF y1 = y2 THEN H
                     ELSE RealAddRat(RootDiv(RealMulRat(H, RSub(x2, x1)), d), y1)
            IN  Returns(<<x, IF RealSign(y) < 0 THEN RealAbs(y) ELSE y>>)

\* a handler for ValueError alone: any other exception leaves the solver
except_value_error(outcome) ==
    IF outcome.raises = "" THEN outcome.value
    ELSE IF outcome.raises = "ValueError" THEN None
    ELSE [escaped |-> outcome.raises]

\* lines 231-233: except Exception: ... return None
except_exception(outcome) ==
    IF outcome.raises = "" THEN outcome.value ELSE None

calculate_position(beacon1_pos, beacon2_pos, dist1, dist2) ==
    IF distances_invalid(dist1, dist2) THEN None
    ELSE except_exception(trilaterate(beacon1_pos, beacon2_pos, dist1, dist2))

(***************************************************************************)
(* The objects as their constructors leave them (DistanceCollector.__init__ *)
(* PositioningSystem.__init__), no thread started.                         *)
(***************************************************************************)
MainIdle ==
    [pc |-> "start_beacon1", beacon_num |-> 0, current_time |-> 0,
     total_distance |-> RInt(0), index |-> 0,
     dist1 |-> None, dist2 |-> None, position |-> None, count1 |-> 0,
     loop_time |-> 0, last_report_time |-> 0, averaged |-> <<0, 0>>]

ReaderIdle ==
    [pc |-> "r_idle", timestamp |-> 0, todo |-> <<>>, fails |-> FALSE]

SinkIdle ==
    [report |-> None, emitted |-> 0, errors |-> 0, raised |-> FALSE,
     seen |-> {}, consistent |-> TRUE, appended |-> <<<<>>, <<>>>>]

\* AzureIoTReporter.__init__; hub: the messages send_message has delivered
ReporterIdle ==
    [client |-> "None", connected |-> FALSE, message_count |-> 0, hub |-> <<>>]

\* DWM3001Collector before start_tag is called: printed is what the
\* collection loop has written to stdout, lines how many lines it has read
CollectorIdle == [pc |-> "idle", printed |-> <<>>, lines |-> 0]

\* no KeyframeAnimator has been constructed
AnimatorIdle == None

ToolsIdle ==
    /\ collector = CollectorIdle
    /\ animator = AnimatorIdle

SysIdle ==
    /\ tag_collector = [running |-> FALSE, process |-> "None", thread |-> "None",
                        averaging_window |-> AVERAGING_WINDOW_SECONDS]
    /\ system = [running |-> FALSE, beacon1_process |-> "None",
                 beacon2_process |-> "None"]
    /\ main = MainIdle
    /\ reader = ReaderIdle
    /\ lines_read = 0
    /\ sink = SinkIdle

(***************************************************************************)
(* Specification SolverSpec: one calculate_position call on a calculator   *)
(* built with any two beacon positions of the grid.  The distances are     *)
(* either those of a tag position of the grid to the two beacons, or any   *)
(* two distances of the distance grid.                                     *)
(***************************************************************************)
Coords == {RInt(i) : i \in 0..MaxCoord}
GridPoints == Coords \X Coords
GridDistances == {FromRat(Rat(k, 2)) : k \in (-1)..MaxHalves}

\* |p - q|
Euclid(p, q) ==
    SqrtOf(RAdd(RMul(RSub(p[1], q[1]), RSub(p[1], q[1])),
                RMul(RSub(p[2], q[2]), RSub(p[2], q[2]))))

SeqIdle ==
    /\ beacon1_distances = <<>>
    /\ beacon2_distances = <<>>
    /\ clock = 0
    /\ anchor = 1
    /\ recorded = <<>>
    /\ last = [op |-> "init", result |-> None]

CalcIdle ==
    [beacon1_pos |-> BEACON1_POSITION, beacon2_pos |-> BEACON2_POSITION,
     tag |-> None, dist1 |-> FromRat(RInt(0)), dist2 |-> FromRat(RInt(0)),
     called |-> FALSE, position |-> None]

SolverInit ==
    /\ SeqIdle
    /\ SysIdle
    /\ reporter = ReporterIdle
    /\ ToolsIdle
    /\ \/ \E b1 \in GridPoints, b2 \in GridPoints, p \in GridPoints :
             calc = [beacon1_pos |-> b1, beacon2_pos |-> b2, tag |-> p,
                     dist1 |-> Euclid(p, b1), dist2 |-> Euclid(p, b2),
                     called |-> FALSE, position |-> None]
       \/ \E b1 \in GridPoints, b2 \in GridPoints,
             d1 \in GridDistances, d2 \in GridDistances :
             calc = [beacon1_pos |-> b1, beacon2_pos |-> b2, tag |-> None,
                     dist1 |-> d1, dist2 |-> d2,
                     called |-> FALSE, position |-> None]

\* position = self.calculator.calculate_position(dist1, dist2)
Solve ==
    /\ ~calc.called
    /\ calc' = [calc EXCEPT
                  !.called = TRUE,
                  !.position = calculate_position(calc.beacon1_pos, calc.beacon2_pos,
                                                  calc.dist1, calc.dist2)]
    /\ UNCHANGED <<aggVars, seqVars, reporter, toolVars, sysVars>>

SolverNext == Solve

SolverSpec == SolverInit /\ [][SolverNext]_vars

(***************************************************************************)
(* Specification SystemSpec: the program as main() runs it.  The main      *)
(* thread goes through PositioningSystem.start, the report loop            *)
(* (_position_reporter, _report_position, get_averaged_distance) and, once *)
(* interrupted, PositioningSystem.stop; the reader thread runs             *)
(* DistanceCollector._read_output.  The two threads share the two distance *)
(* lists without a lock, so each access to a list is a step of its own: a  *)
(* thread switch can fall between any two of them.                         *)
(***************************************************************************)
\* time.time() when the program starts: far more than one report interval
StartTime == 5 * REPORT_INTERVAL_SECONDS

\* the values time.time() takes while the system runs
SystemInstants == {StartTime, StartTime + AVERAGING_WINDOW_SECONDS + 1}

\* one entry of "results"; a field that is missing is "absent"
Entry(status, addr, d_cm) ==
    [object |-> TRUE, Status |-> status, Addr |-> addr, D_cm |-> d_cm]
IntValue(i) == [type |-> "int", val |-> i]
StrValue == [type |-> "str", val |-> 0]
Absent == [type |-> "absent", val |-> 0]
\* an element of "results" that is not a JSON object
NotAnObject ==
    [object |-> FALSE, Status |-> "absent", Addr |-> "absent", D_cm |-> Absent]

\* the lines the tag process prints.  kind is "blank" (nothing but white
\* space), "text" (not JSON), "scalar" (a JSON number, true, false or null),
\* "no_results" (a JSON object without the key "results"), "results_scalar"
\* (an object whose "results" is a number or null) or "object" (an object
\* whose "results" is the list results)
Line(kind, results) == [kind |-> kind, results |-> results]

SystemLines ==
    {Line("blank", <<>>), Line("text", <<>>), Line("scalar", <<>>)}
    \cup {Line("object", <<Entry("Ok", "0x0001", IntValue(140))>>)}
    \cup {Line("object", <<Entry("Ok", "0x0002", IntValue(0))>>)}
    \cup {Line("object", <<Entry("Ok", "0x0001", IntValue(90)),
                           Entry("Ok", "0x0002", IntValue(90))>>)}
    \cup {Line("object", <<Entry("Err", "0x0001", IntValue(40)),
                           Entry("Ok", "0x0003", IntValue(40)),
                           Entry("Ok", "0x0002", StrValue)>>)}

\* lines 89-107: the measurements the loop over data['results'] records, in
\* order, and whether it ends in an exception (distance_cm / 100.0 on a
\* D_cm that is not a number)
\* a loop that ends at the first entry it does not record, as with a
\* break in place of falling through to the next entry
RECURSIVE MeasurementsUntilRejected(_)
MeasurementsUntilRejected(results) ==
    IF results = <<>> THEN [todo |-> <<>>, fails |-> FALSE]
    ELSE
    LET result == Head(results)
        rest == MeasurementsUntilRejected(Tail(results))
    IN  IF ~result.object \/ result.D_cm.type = "str"
        THEN [todo |-> <<>>, fails |-> TRUE]
        ELSE IF result.Status = "Ok" /\ result.D_cm.type = "int"
                /\ result.Addr \in {"0x0001", "0x0002"}
        THEN [todo |-> <<<<IF result.Addr = "0x0001" THEN 1 ELSE 2,
                           distance_m(result.D_cm.val)>>>> \o rest.todo,
              fails |-> rest.fails]
        ELSE [todo |-> <<>>, fails |-> FALSE]

RECURSIVE Measurements(_)
Measurements(results) ==
    IF results = <<>> THEN [todo |-> <<>>, fails |-> FALSE]
    ELSE
    LET result == Head(results)
        rest == Measurements(Tail(results))
    IN  \* result.get on something that is not a dict raises AttributeError
        IF ~result.object THEN [todo |-> <<>>, fails |-> TRUE]
        ELSE IF result.Status = "Ok" /\ result.D_cm.type # "absent" /\ result.Addr # "absent"
        THEN IF result.D_cm.type # "int" THEN [todo |-> <<>>, fails |-> TRUE]
             ELSE IF result.Addr = "0x0001"
             THEN [todo |-> <<<<1, distance_m(result.D_cm.val)>>>> \o rest.todo,
                   fails |-> rest.fails]
             ELSE IF result.Addr = "0x0002"
             THEN [todo |-> <<<<2, distance_m(result.D_cm.val)>>>> \o rest.todo,
                   fails |-> rest.fails]
             ELSE rest
        ELSE rest

\* lines 76-110 for one line: the measurements recorded and whether the
\* handling of the line ends in an exception that reaches line 112
\* ('results' in data on a scalar, iterating a scalar, or the loop's own)
line_outcome(line) ==
    IF line.kind = "object" THEN Measurements(line.results)
    ELSE [todo |-> <<>>, fails |-> line.kind \in {"scalar", "results_scalar"}]

SetList(beacon_num, list) ==
    IF beacon_num = 1
    THEN beacon1_distances' = list /\ UNCHANGED beacon2_distances
    ELSE beacon2_distances' = list /\ UNCHANGED beacon1_distances

\* history: the mean of a window, None for an empty one
WindowMean(list) ==
    IF list = <<>> THEN None ELSE RDiv(SumDist(list), RInt(Len(list)))

\* history: while get_averaged_distance runs on a list, the means of all the
\* contents the list goes through
Seen(beacon_num, list) ==
    IF main.pc \in {"avg_check", "avg_front", "avg_pop", "avg_empty",
                    "avg_latest", "avg_sum", "avg_len"}
       /\ main.beacon_num = beacon_num
    THEN sink.seen \cup {WindowMean(list)}
    ELSE sink.seen

SystemInit ==
    /\ beacon1_distances = <<>>
    /\ beacon2_distances = <<>>
    /\ clock = StartTime
    /\ anchor = 1
    /\ recorded = <<>>
    /\ last = [op |-> "init", result |-> None]
    /\ calc = CalcIdle
    /\ reporter = ReporterIdle
    /\ ToolsIdle
    /\ SysIdle

(*------------------------- the environment -------------------------------*)
\* time passes
ClockAdvance ==
    /\ \E t \in SystemInstants : t > clock /\ clock' = t
    /\ UNCHANGED <<aggVars, anchor, recorded, last, calc, reporter, toolVars, sysVars>>

\* the tag process exits on its own
ProcessExits ==
    /\ tag_collector.process = "running"
    /\ tag_collector' = [tag_collector EXCEPT !.process = "exited"]
    /\ UNCHANGED <<aggVars, seqVars, calc, reporter, toolVars, system, main, reader, lines_read, sink>>

(*------------------------- the reader thread -----------------------------*)
\* logging.error at line 114, made only "if self.running"
LogReaderError(s) ==
    IF tag_collector.running THEN [s EXCEPT !.errors = 1] ELSE s

\* line 69: while self.running and self.process
ReaderLoop ==
    /\ reader.pc = "r_loop"
    /\ reader' = [reader EXCEPT
                    !.pc = IF tag_collector.running THEN "r_read" ELSE "r_done"]
    /\ UNCHANGED <<aggVars, seqVars, calc, reporter, toolVars, tag_collector, system, main,
                   lines_read, sink>>

\* lines 71-110: readline returns a line; it is stripped, stamped and parsed
ReaderLine(line) ==
    /\ reader.pc = "r_read"
    /\ tag_collector.process # "None"
    /\ lines_read < MaxLines
    /\ lines_read' = lines_read + 1
    /\ LET m == line_outcome(line)
       IN  IF m.todo # <<>>
           THEN /\ reader' = [pc |-> "r_append", timestamp |-> clock,
                              todo |-> m.todo, fails |-> m.fails]
                /\ UNCHANGED sink
           ELSE /\ reader' = [reader EXCEPT !.pc = "r_loop"]
                /\ sink' = IF m.fails THEN LogReaderError(sink) ELSE sink
    /\ UNCHANGED <<aggVars, seqVars, calc, reporter, toolVars, tag_collector, system, main>>

\* lines 71-73: readline returns '' at end of stream
ReaderEndOfStream ==
    /\ reader.pc = "r_read"
    /\ tag_collector.process = "exited"
    /\ reader' = [reader EXCEPT !.pc = "r_done"]
    /\ UNCHANGED <<aggVars, seqVars, calc, reporter, toolVars, tag_collector, system, main,
                   lines_read, sink>>

\* the reader after one _add_distance_measurement call has returned
ReaderAdded ==
    LET rest == Tail(reader.todo)
    IN  IF rest # <<>> THEN [reader EXCEPT !.pc = "r_append", !.todo = rest]
        ELSE [ReaderIdle EXCEPT !.pc = "r_loop"]

\* the reader after an exception has ended the handling of its line
ReaderFailed == [ReaderIdle EXCEPT !.pc = "r_loop"]

\* lines 119 / 122: the append
ReaderAppend ==
    /\ reader.pc = "r_append"
    /\ LET n == reader.todo[1][1]
           list == Append(distance_list(n), <<reader.timestamp, reader.todo[1][2]>>)
       IN  /\ SetList(n, list)
           /\ sink' = [sink EXCEPT !.seen = Seen(n, list),
                                   !.appended[n] = Append(@, list[Len(list)])]
    /\ reader' = [reader EXCEPT !.pc = "r_check"]
    /\ UNCHANGED <<seqVars, calc, reporter, toolVars, tag_collector, system, main, lines_read>>

\* line 128, "distance_list and": the list is tested for emptiness
ReaderCheck ==
    /\ reader.pc = "r_check"
    /\ IF distance_list(reader.todo[1][1]) # <<>>
       THEN reader' = [reader EXCEPT !.pc = "r_front"] /\ UNCHANGED sink
       ELSE /\ reader' = ReaderAdded
            /\ sink' = IF Tail(reader.todo) = <<>> /\ reader.fails
                       THEN LogReaderError(sink) ELSE sink
    /\ UNCHANGED <<aggVars, seqVars, calc, reporter, toolVars, tag_collector, system, main, lines_read>>

\* line 128, "distance_list[0][0] < cutoff_time": the front is read
ReaderFront ==
    /\ reader.pc = "r_front"
    /\ LET list == distance_list(reader.todo[1][1])
       IN  IF list = <<>>
           THEN reader' = ReaderFailed /\ sink' = LogReaderError(sink)
           ELSE IF list[1][1] < reader.timestamp - tag_collector.averaging_window
           THEN reader' = [reader EXCEPT !.pc = "r_pop"] /\ UNCHANGED sink
           ELSE /\ reader' = ReaderAdded
                /\ sink' = IF Tail(reader.todo) = <<>> /\ reader.fails
                           THEN LogReaderError(sink) ELSE sink
    /\ UNCHANGED <<aggVars, seqVars, calc, reporter, toolVars, tag_collector, system, main, lines_read>>

\* a clean-up that pops the newest sample (pop() for pop(0))
ReaderPopLast ==
    /\ reader.pc = "r_pop"
    /\ LET n == reader.todo[1][1]
           list == distance_list(n)
       IN  IF list = <<>>
           THEN /\ reader' = ReaderFailed
                /\ sink' = LogReaderError(sink)
                /\ UNCHANGED aggVars
           ELSE /\ reader' = [reader EXCEPT !.pc = "r_check"]
                /\ SetList(n, SubSeq(list, 1, Len(list) - 1))
                /\ sink' = [sink EXCEPT
                              !.seen = Seen(n, SubSeq(list, 1, Len(list) - 1))]
    /\ UNCHANGED <<seqVars, calc, reporter, toolVars, tag_collector, system, main, lines_read>>

\* line 129: distance_list.pop(0)
ReaderPop ==
    /\ reader.pc = "r_pop"
    /\ LET n == reader.todo[1][1]
           list == distance_list(n)
       IN  IF list = <<>>
           THEN /\ reader' = ReaderFailed
                /\ sink' = LogReaderError(sink)
                /\ UNCHANGED aggVars
           ELSE /\ reader' = [reader EXCEPT !.pc = "r_check"]
                /\ SetList(n, Tail(list))
                /\ sink' = [sink EXCEPT !.seen = Seen(n, Tail(list))]
    /\ UNCHANGED <<seqVars, calc, reporter, toolVars, tag_collector, system, main, lines_read>>

(*------------------------- the main thread: start ------------------------*)
\* A KeyboardInterrupt reaches the main thread between any two steps of
\* start, also while subprocess.Popen runs: the child then exists and the
\* attribute it was to be stored in is still None.  A process field is
\* "None", "launched" (the child runs, the attribute is still None),
\* "running" (the attribute holds the Popen object) or "exited"

\* lines 264-269: Popen launches beacon 1
StartBeacon1 ==
    /\ main.pc = "start_beacon1"
    /\ system' = [system EXCEPT !.beacon1_process = "launched"]
    /\ main' = [main EXCEPT !.pc = "store_beacon1"]
    /\ UNCHANGED <<aggVars, seqVars, calc, reporter, toolVars, tag_collector, reader, lines_read, sink>>

\* lines 264 and 270: self.beacon1_process is assigned, time.sleep(1)
StoreBeacon1 ==
    /\ main.pc = "store_beacon1"
    /\ system' = [system EXCEPT !.beacon1_process = "running"]
    /\ main' = [main EXCEPT !.pc = "start_beacon2"]
    /\ UNCHANGED <<aggVars, seqVars, calc, reporter, toolVars, tag_collector, reader, lines_read, sink>>

\* lines 273-278: Popen launches beacon 2
StartBeacon2 ==
    /\ main.pc = "start_beacon2"
    /\ system' = [system EXCEPT !.beacon2_process = "launched"]
    /\ main' = [main EXCEPT !.pc = "store_beacon2"]
    /\ UNCHANGED <<aggVars, seqVars, calc, reporter, toolVars, tag_collector, reader, lines_read, sink>>

\* lines 273 and 279: self.beacon2_process is assigned, time.sleep(1)
StoreBeacon2 ==
    /\ main.pc = "store_beacon2"
    /\ system' = [system EXCEPT !.beacon2_process = "running"]
    /\ main' = [main EXCEPT !.pc = "start_tag"]
    /\ UNCHANGED <<aggVars, seqVars, calc, reporter, toolVars, tag_collector, reader, lines_read, sink>>

\* line 283, DistanceCollector.start, lines 46-52: Popen launches the tag
StartTag ==
    /\ main.pc = "start_tag"
    /\ tag_collector' = [tag_collector EXCEPT !.process = "launched"]
    /\ main' = [main EXCEPT !.pc = "store_tag"]
    /\ UNCHANGED <<aggVars, seqVars, calc, reporter, toolVars, system, reader, lines_read, sink>>

\* lines 46 and 54: self.process is assigned, self.running = True
StoreTag ==
    /\ main.pc = "store_tag"
    /\ tag_collector' = [tag_collector EXCEPT !.process = "running",
                                              !.running = TRUE]
    /\ main' = [main EXCEPT !.pc = "create_thread"]
    /\ UNCHANGED <<aggVars, seqVars, calc, reporter, toolVars, system, reader, lines_read, sink>>

\* line 55: self.thread = threading.Thread(target=self._read_output)
CreateThread ==
    /\ main.pc = "create_thread"
    /\ tag_collector' = [tag_collector EXCEPT !.thread = "created"]
    /\ main' = [main EXCEPT !.pc = "start_thread"]
    /\ UNCHANGED <<aggVars, seqVars, calc, reporter, toolVars, system, reader, lines_read, sink>>

\* lines 56 and 284: self.thread.start(), time.sleep(2)
StartThread ==
    /\ main.pc = "start_thread"
    /\ tag_collector' = [tag_collector EXCEPT !.thread = "started"]
    /\ reader' = [reader EXCEPT !.pc = "r_loop"]
    /\ main' = [main EXCEPT !.pc = "set_running"]
    /\ UNCHANGED <<aggVars, seqVars, calc, reporter, toolVars, system, lines_read, sink>>

\* lines 286-287 and 308: self.running = True, last_report_time = 0
SetRunning ==
    /\ main.pc = "set_running"
    /\ system' = [system EXCEPT !.running = TRUE]
    /\ main' = [main EXCEPT !.pc = "loop", !.last_report_time = 0]
    /\ UNCHANGED <<aggVars, seqVars, calc, reporter, toolVars, tag_collector, reader, lines_read, sink>>

(*------------------------- the main thread: the report loop --------------*)
\* an iteration that starts a tick whether or not a report is due
LoopIterationAlwaysReports ==
    /\ main.pc = "loop"
    /\ system.running
    /\ main' = [MainIdle EXCEPT !.pc = "avg_time", !.beacon_num = 1,
                                !.loop_time = clock,
                                !.last_report_time = main.last_report_time]
    /\ sink' = [sink EXCEPT !.report = None, !.emitted = 0]
    /\ UNCHANGED <<aggVars, seqVars, calc, reporter, toolVars, tag_collector, system, reader, lines_read>>

\* lines 311-319: one iteration that finds a report due and starts the tick
\* (an iteration that finds none due only sleeps)
LoopIteration ==
    /\ main.pc = "loop"
    /\ system.running
    /\ clock - main.last_report_time >= REPORT_INTERVAL_SECONDS
    /\ main' = [MainIdle EXCEPT !.pc = "avg_time", !.beacon_num = 1,
                                !.loop_time = clock,
                                !.last_report_time = main.last_report_time]
    /\ sink' = [sink EXCEPT !.report = None, !.emitted = 0]
    /\ UNCHANGED <<aggVars, seqVars, calc, reporter, toolVars, tag_collector, system, reader, lines_read>>

\* an exception other than KeyboardInterrupt ends the tick and leaves
\* _position_reporter and start; main()'s finally clause calls stop
MainRaised == [main EXCEPT !.pc = "stop"]

\* get_averaged_distance returns result to _report_position
MainReturned(result) ==
    IF main.beacon_num = 1
    \* (current_time is kept as history: the instant the call for beacon 1 used)
    THEN [main EXCEPT !.pc = "avg_time", !.beacon_num = 2, !.dist1 = result,
                      !.total_distance = RInt(0), !.index = 0]
    ELSE [main EXCEPT !.pc = "report", !.beacon_num = 0, !.dist2 = result,
                      !.current_time = 0, !.total_distance = RInt(0), !.index = 0]

\* history: the call has returned; was its value the mean of the list at
\* one instant of the call
SinkReturned(result) ==
    [sink EXCEPT !.seen = {},
                 !.consistent = IsNumber(result) => result \in sink.seen]

\* line 133: current_time = time.time()
AvgTime ==
    /\ main.pc = "avg_time"
    /\ main' = [main EXCEPT !.pc = "avg_check", !.current_time = clock]
    /\ sink' = [sink EXCEPT !.seen = {WindowMean(distance_list(main.beacon_num))}]
    /\ UNCHANGED <<aggVars, seqVars, calc, reporter, toolVars, tag_collector, system, reader, lines_read>>

\* line 128 called from line 143, "distance_list and"
AvgCheck ==
    /\ main.pc = "avg_check"
    /\ main' = [main EXCEPT !.pc = IF distance_list(main.beacon_num) # <<>>
                                   THEN "avg_front" ELSE "avg_empty"]
    /\ UNCHANGED <<aggVars, seqVars, calc, reporter, toolVars, tag_collector, system, reader,
                   lines_read, sink>>

\* line 128 called from line 143, "distance_list[0][0] < cutoff_time"
AvgFront ==
    /\ main.pc = "avg_front"
    /\ LET list == distance_list(main.beacon_num)
       IN  IF list = <<>>
           THEN main' = MainRaised /\ sink' = [sink EXCEPT !.raised = TRUE]
           ELSE /\ main' = [main EXCEPT !.pc =
                      IF list[1][1] < main.current_time - tag_collector.averaging_window
                      THEN "avg_pop" ELSE "avg_empty"]
                /\ UNCHANGED sink
    /\ UNCHANGED <<aggVars, seqVars, calc, reporter, toolVars, tag_collector, system, reader, lines_read>>

\* line 129 called from line 143: distance_list.pop(0)
AvgPop ==
    /\ main.pc = "avg_pop"
    /\ LET list == distance_list(main.beacon_num)
       IN  IF list = <<>>
           THEN /\ main' = MainRaised
                /\ sink' = [sink EXCEPT !.raised = TRUE]
                /\ UNCHANGED aggVars
           ELSE /\ main' = [main EXCEPT !.pc = "avg_check"]
                /\ SetList(main.beacon_num, Tail(list))
                /\ sink' = [sink EXCEPT !.seen = Seen(main.beacon_num, Tail(list))]
    /\ UNCHANGED <<seqVars, calc, reporter, toolVars, tag_collector, system, reader, lines_read>>

\* lines 146-147: if not distance_list: return None
AvgEmpty ==
    /\ main.pc = "avg_empty"
    /\ IF distance_list(main.beacon_num) = <<>>
       THEN main' = MainReturned(None) /\ sink' = SinkReturned(None)
       ELSE main' = [main EXCEPT !.pc = "avg_latest"] /\ UNCHANGED sink
    /\ UNCHANGED <<aggVars, seqVars, calc, reporter, toolVars, tag_collector, system, reader, lines_read>>

\* lines 150-152: latest_time = distance_list[-1][0] and the timeout test
AvgLatest ==
    /\ main.pc = "avg_latest"
    /\ LET list == distance_list(main.beacon_num)
       IN  IF list = <<>>
           THEN main' = MainRaised /\ sink' = [sink EXCEPT !.raised = TRUE]
           ELSE IF (main.current_time - list[Len(list)][1]) > DISTANCE_TIMEOUT_SECONDS
           THEN main' = MainReturned(None) /\ sink' = SinkReturned(None)
           ELSE /\ main' = [main EXCEPT !.pc = "avg_sum",
                                        !.total_distance = RInt(0), !.index = 0]
                /\ UNCHANGED sink
    /\ UNCHANGED <<aggVars, seqVars, calc, reporter, toolVars, tag_collector, system, reader, lines_read>>

\* line 155: one step of sum(dist for _, dist in distance_list): the list
\* iterator yields the element at its index, or stops when the index has
\* reached the length the list has now
AvgSum ==
    /\ main.pc = "avg_sum"
    /\ LET list == distance_list(main.beacon_num)
       IN  main' = IF main.index < Len(list)
                   THEN [main EXCEPT
                           !.total_distance = RAdd(@, list[main.index + 1][2]),
                           !.index = @ + 1]
                   ELSE [main EXCEPT !.pc = "avg_len"]
    /\ UNCHANGED <<aggVars, seqVars, calc, reporter, toolVars, tag_collector, system, reader,
                   lines_read, sink>>

\* the value lines 156-158 return for a sum and the length read at line 156
average_of(total_distance, count) ==
    IF count > 0 THEN RDiv(total_distance, RInt(count)) ELSE None

\* lines 156-158: count = len(distance_list); return total_distance / count
AvgLen ==
    /\ main.pc = "avg_len"
    /\ LET result == average_of(main.total_distance,
                                Len(distance_list(main.beacon_num)))
       \* (averaged is kept as history: the count each average was divided by)
       IN  /\ main' = [MainReturned(result) EXCEPT
                         !.averaged[main.beacon_num] =
                             Len(distance_list(main.beacon_num))]
           /\ sink' = SinkReturned(result)
    /\ UNCHANGED <<aggVars, seqVars, calc, reporter, toolVars, tag_collector, system, reader, lines_read>>

\* lines 347-356: the status list of the "Waiting for measurements" report
waiting_status(dist1, dist2) ==
    << IF dist1 = None THEN "no beacon1 data" ELSE "d1",
       IF dist2 = None THEN "no beacon2 data" ELSE "d2" >>

\* the logging call of _report_position that does not need the counts
report_without_position(dist1, dist2, position) ==
    IF dist1 # None /\ dist2 # None
    THEN [kind |-> "failed", level |-> "debug", d1 |-> dist1, d2 |-> dist2]
    ELSE [kind |-> "waiting", level |-> "debug", d1 |-> dist1, d2 |-> dist2,
          status |-> waiting_status(dist1, dist2)]

\* lines 334-359 but for the position report: the solver is called when both
\* averages are there; without a position a debug line is logged
Report ==
    /\ main.pc = "report"
    /\ LET position == IF main.dist1 # None /\ main.dist2 # None
                       THEN calculate_position(BEACON1_POSITION, BEACON2_POSITION,
                                FromRat(main.dist1), FromRat(main.dist2))
                       ELSE None
       IN  IF position # None
           THEN /\ main' = [main EXCEPT !.pc = "count1", !.position = position]
                /\ UNCHANGED sink
           ELSE /\ main' = [main EXCEPT !.pc = "reported"]
                /\ sink' = [sink EXCEPT
                      !.report = report_without_position(main.dist1, main.dist2,
                                                         position),
                      !.emitted = @ + 1]
    /\ UNCHANGED <<aggVars, seqVars, calc, reporter, toolVars, tag_collector, system, reader, lines_read>>

\* line 339: count1 = get_measurement_count(1)
Count1 ==
    /\ main.pc = "count1"
    /\ main' = [main EXCEPT !.pc = "count2", !.count1 = get_measurement_count(1)]
    /\ UNCHANGED <<aggVars, seqVars, calc, reporter, toolVars, tag_collector, system, reader,
                   lines_read, sink>>

\* lines 340-342: count2 = get_measurement_count(2) and the position report
Count2 ==
    /\ main.pc = "count2"
    /\ main' = [main EXCEPT !.pc = "reported"]
    /\ sink' = [sink EXCEPT
          !.report = [kind |-> "position", level |-> "info",
                      x |-> main.position[1], y |-> main.position[2],
                      d1 |-> main.dist1, d2 |-> main.dist2,
                      n1 |-> main.count1, n2 |-> get_measurement_count(2)],
          !.emitted = @ + 1]
    /\ UNCHANGED <<aggVars, seqVars, calc, reporter, toolVars, tag_collector, system, reader, lines_read>>

\* line 317: last_report_time = current_time
EndTick ==
    /\ main.pc = "reported"
    /\ main' = [main EXCEPT !.pc = "loop", !.last_report_time = main.loop_time]
    /\ UNCHANGED <<aggVars, seqVars, calc, reporter, toolVars, tag_collector, system, reader,
                   lines_read, sink>>

(*------------------------- the main thread: stop -------------------------*)
\* KeyboardInterrupt: caught at line 321 inside the loop, at line 402
\* otherwise; main()'s finally clause then calls stop
Interrupt ==
    /\ main.pc \notin {"stop", "c_terminate", "c_join",
                       "stop_beacons", "stopped", "stop_failed"}
    /\ main' = [MainIdle EXCEPT !.pc = "stop"]
    /\ sink' = [sink EXCEPT !.seen = {}]
    /\ UNCHANGED <<aggVars, seqVars, calc, reporter, toolVars, tag_collector, system, reader, lines_read>>

\* a stop that lets the loop's running flag stand
StopWithoutClearing ==
    /\ main.pc = "stop"
    /\ tag_collector' = [tag_collector EXCEPT !.running = FALSE]
    /\ main' = [MainIdle EXCEPT !.pc = "c_terminate"]
    /\ UNCHANGED <<aggVars, seqVars, calc, reporter, toolVars, system, reader, lines_read, sink>>

\* lines 292-295 and 60: both running flags are cleared (only the
\* collector's is read by the other thread)
Stop ==
    /\ main.pc = "stop"
    /\ system' = [system EXCEPT !.running = FALSE]
    /\ tag_collector' = [tag_collector EXCEPT !.running = FALSE]
    /\ main' = [MainIdle EXCEPT !.pc = "c_terminate"]
    /\ UNCHANGED <<aggVars, seqVars, calc, reporter, toolVars, reader, lines_read, sink>>

\* a stop that goes on to the join without terminating the process
CollectorTerminateSkipped ==
    /\ main.pc = "c_terminate"
    /\ main' = [main EXCEPT !.pc = "c_join"]
    /\ UNCHANGED <<aggVars, seqVars, calc, reporter, toolVars, tag_collector, system, reader,
                   lines_read, sink>>

\* lines 61-63: the process is terminated and waited for, if self.process
\* holds it
CollectorTerminate ==
    /\ main.pc = "c_terminate"
    /\ tag_collector' = [tag_collector EXCEPT
                           !.process = IF @ \in {"None", "launched"} THEN @
                                       ELSE "exited"]
    /\ main' = [main EXCEPT !.pc = "c_join"]
    /\ UNCHANGED <<aggVars, seqVars, calc, reporter, toolVars, system, reader, lines_read, sink>>

\* a join that returns without waiting for the reader
join_at_once == TRUE

\* thread.join() returns once the reader thread has finished
join_returns == reader.pc = "r_done"

\* lines 64-65: if self.thread: self.thread.join(); stop returns.  join()
\* on a thread that was created and never started raises RuntimeError: it
\* leaves DistanceCollector.stop and PositioningSystem.stop at line 296
CollectorJoin ==
    /\ main.pc = "c_join"
    /\ tag_collector.thread = "started" => join_returns
    /\ main' = [main EXCEPT !.pc = IF tag_collector.thread = "created"
                                   THEN "stop_failed" ELSE "stop_beacons"]
    /\ UNCHANGED <<aggVars, seqVars, calc, reporter, toolVars, tag_collector, system, reader,
                   lines_read, sink>>

\* lines 298-304: the beacon processes that self.beacon1_process and
\* self.beacon2_process hold are terminated and waited for
StopBeacons ==
    /\ main.pc = "stop_beacons"
    /\ system' = [system EXCEPT
                    !.beacon1_process = IF @ \in {"None", "launched"} THEN @
                                        ELSE "exited",
                    !.beacon2_process = IF @ \in {"None", "launched"} THEN @
                                        ELSE "exited"]
    /\ main' = [main EXCEPT !.pc = "stopped"]
    /\ UNCHANGED <<aggVars, seqVars, calc, reporter, toolVars, tag_collector, reader, lines_read, sink>>

ReaderStep ==
    \/ ReaderLoop
    \/ \E line \in SystemLines : ReaderLine(line)
    \/ ReaderEndOfStream
    \/ ReaderAppend
    \/ ReaderCheck
    \/ ReaderFront
    \/ ReaderPop

TickStep ==
    \/ LoopIteration
    \/ AvgTime
    \/ AvgCheck
    \/ AvgFront
    \/ AvgPop
    \/ AvgEmpty
    \/ AvgLatest
    \/ AvgSum
    \/ AvgLen
    \/ Report
    \/ Count1
    \/ Count2
    \/ EndTick

StartStep ==
    \/ StartBeacon1
    \/ StoreBeacon1
    \/ StartBeacon2
    \/ StoreBeacon2
    \/ StartTag
    \/ StoreTag
    \/ CreateThread
    \/ StartThread
    \/ SetRunning

StopStep == Stop \/ CollectorTerminate \/ CollectorJoin \/ StopBeacons

SystemNext ==
    \/ ClockAdvance
    \/ ProcessExits
    \/ ReaderStep
    \/ StartStep
    \/ TickStep
    \/ Interrupt
    \/ StopStep

SystemSpec == SystemInit /\ [][SystemNext]_vars

\* the steps the reader thread takes by itself: all but the arrival of a line
ReaderRuns ==
    \/ ReaderLoop
    \/ ReaderEndOfStream
    \/ ReaderAppend
    \/ ReaderCheck
    \/ ReaderFront
    \/ ReaderPop

(***************************************************************************)
(* Specification ShutdownSpec: the runs of SystemSpec in which the         *)
(* interrupt arrives before the loop has started its first tick, where     *)
(* both threads keep being scheduled.  The reader thread takes its next    *)
(* step when it has one (a readline on the pipe of a process that has      *)
(* exited returns), and the main thread, once in stop, goes through it;    *)
(* terminate() followed by wait() returns, that is, the child exits when   *)
(* signalled.                                                              *)
(***************************************************************************)
ShutdownNext ==
    \/ ClockAdvance
    \/ ProcessExits
    \/ ReaderStep
    \/ StartStep
    \/ Interrupt
    \/ StopStep

ShutdownSpec ==
    /\ SystemInit
    /\ [][ShutdownNext]_vars
    /\ WF_vars(ReaderRuns)
    /\ WF_vars(StopStep)

(***************************************************************************)
(* Specification ReaderSpec: one iteration of the loop of _read_output,    *)
(* for every line of ReaderLines, with no tick running at the same time.   *)
(* The windows hold nothing or one earlier sample when the line arrives.   *)
(***************************************************************************)
EntryValues ==
    {Entry(status, addr, IntValue(40)) :
        status \in {"Ok", "Err"}, addr \in {"0x0001", "0x0002", "0x0003"}}
    \cup {Entry("Ok", "0x0001", IntValue(140))}

MalformedEntries ==
    {NotAnObject, Entry("Ok", "0x0001", StrValue), Entry("Ok", "0x0002", Absent),
     Entry("absent", "0x0001", IntValue(40)), Entry("Ok", "absent", IntValue(40))}

ReaderLines ==
    {Line(kind, <<>>) :
        kind \in {"blank", "text", "scalar", "no_results", "results_scalar"}}
    \cup {Line("object", results) :
            results \in UNION {[1..n -> EntryValues \cup MalformedEntries] :
                                 n \in 0..MaxEntries}}

\* the two windows after the calls of _add_distance_measurement of one line
RECURSIVE record_all(_, _, _)
record_all(lists, timestamp, todo) ==
    IF todo = <<>> THEN lists
    ELSE LET beacon_num == Head(todo)[1]
             distance == Head(todo)[2]
         IN  record_all(
               IF beacon_num = 1
               THEN <<add_distance_measurement(lists[1], timestamp, distance), lists[2]>>
               ELSE <<lists[1], add_distance_measurement(lists[2], timestamp, distance)>>,
               timestamp, Tail(todo))

\* history: the samples of one line appended to the samples appended before
RECURSIVE append_all(_, _, _)
append_all(appended, timestamp, todo) ==
    IF todo = <<>> THEN appended
    ELSE append_all([appended EXCEPT ![Head(todo)[1]] =
                         Append(@, <<timestamp, Head(todo)[2]>>)],
                    timestamp, Tail(todo))

EarlierWindows == {<<>>, <<<<StartTime, distance_m(140)>>>>}

ReaderInit ==
    /\ beacon1_distances \in EarlierWindows
    /\ beacon2_distances \in EarlierWindows
    /\ clock \in SystemInstants
    /\ anchor = 1
    /\ recorded = <<>>
    /\ last = [op |-> "init", result |-> None, line |-> Line("blank", <<>>)]
    /\ calc = CalcIdle
    /\ reporter = ReporterIdle
    /\ ToolsIdle
    /\ tag_collector = [running |-> TRUE, process |-> "running", thread |-> "started",
                        averaging_window |-> AVERAGING_WINDOW_SECONDS]
    /\ system = [running |-> FALSE, beacon1_process |-> "running",
                 beacon2_process |-> "running"]
    /\ main = [MainIdle EXCEPT !.pc = "set_running"]
    /\ reader = [ReaderIdle EXCEPT !.pc = "r_read"]
    /\ lines_read = 0
    /\ sink = [SinkIdle EXCEPT !.appended = <<beacon1_distances, beacon2_distances>>]

\* lines 71-114 for the line read: stamped, parsed, its measurements
\* recorded, an exception logged
HandleLine(line) ==
    /\ reader.pc = "r_read"
    /\ lines_read = 0
    /\ lines_read' = lines_read + 1
    /\ LET m == line_outcome(line)
           lists == record_all(<<beacon1_distances, beacon2_distances>>, clock, m.todo)
       IN  /\ beacon1_distances' = lists[1]
           /\ beacon2_distances' = lists[2]
           /\ sink' = [IF m.fails THEN LogReaderError(sink) ELSE sink
                          EXCEPT !.appended = append_all(@, clock, m.todo)]
    /\ reader' = [ReaderIdle EXCEPT !.pc = "r_loop"]
    /\ last' = [op |-> "line", result |-> None, line |-> line]
    /\ UNCHANGED <<clock, anchor, recorded, calc, reporter, toolVars, tag_collector, system, main>>

ReaderNext == \E line \in ReaderLines : HandleLine(line)

ReaderSpec == ReaderInit /\ [][ReaderNext]_vars

(***************************************************************************)
(* Specification Spec: the collector used by one caller at a time, as a    *)
(* sequence of record (_add_distance_measurement) and average              *)
(* (get_averaged_distance) calls on one beacon.  A record call carries the *)
(* timestamp its caller passes, in any order; an average call reads        *)
(* time.time(), which does not go back between two average calls.          *)
(***************************************************************************)
Init ==
    /\ beacon1_distances = <<>>
    /\ beacon2_distances = <<>>
    /\ clock = 0
    /\ anchor \in BeaconNums
    /\ recorded = <<>>
    /\ last = [op |-> "init", result |-> None]
    /\ calc = CalcIdle
    /\ reporter = ReporterIdle
    /\ ToolsIdle
    /\ SysIdle

\* _add_distance_measurement(timestamp, beacon_num, distance)
Record(beacon_num, timestamp, distance) ==
    /\ Len(recorded) < MaxRecords
    /\ IF beacon_num = 1
       THEN /\ beacon1_distances' =
                 add_distance_measurement(beacon1_distances, timestamp, distance)
            /\ UNCHANGED beacon2_distances
       ELSE /\ beacon2_distances' =
                 add_distance_measurement(beacon2_distances, timestamp, distance)
            /\ UNCHANGED beacon1_distances
    /\ recorded' = Append(recorded, <<timestamp, distance>>)
    /\ last' = [op |-> "record", result |-> None]
    /\ UNCHANGED <<clock, anchor, calc, reporter, toolVars, sysVars>>

\* get_averaged_distance(beacon_num), time.time() returning current_time
Average(beacon_num, current_time) ==
    LET r == averaged_distance(distance_list(beacon_num), current_time)
    IN  /\ current_time >= clock
        /\ clock' = current_time
        /\ IF beacon_num = 1
           THEN beacon1_distances' = r.list /\ UNCHANGED beacon2_distances
           ELSE beacon2_distances' = r.list /\ UNCHANGED beacon1_distances
        /\ last' = [op |-> "average", result |-> r.result]
        /\ UNCHANGED <<anchor, recorded, calc, reporter, toolVars, sysVars>>

\* get_measurement_count(beacon_num), called when the clock shows current_time
Count(beacon_num, current_time) ==
    /\ current_time >= clock
    /\ clock' = current_time
    /\ last' = [op |-> "count", result |-> RInt(get_measurement_count(beacon_num))]
    /\ UNCHANGED <<aggVars, anchor, recorded, calc, reporter, toolVars, sysVars>>

RecordCall == \E t \in Instants, d \in Distances : Record(anchor, t, d)
AverageCall == \E t \in Instants : Average(anchor, t)
CountCall == \E t \in Instants : Count(anchor, t)

Next == RecordCall \/ AverageCall \/ CountCall

Spec == Init /\ [][Next]_vars

(***************************************************************************)
(* Specification ReporterSpec: one AzureIoTReporter, on which connect,     *)
(* disconnect and the three send methods are called in any order.  The     *)
(* calls into the SDK (create_from_connection_string, connect, disconnect, *)
(* send_message) each either return or raise.                              *)
(***************************************************************************)
MessageTypes == {"positioning", "distance", "status"}

ReporterInit ==
    /\ SeqIdle
    /\ SysIdle
    /\ calc = CalcIdle
    /\ reporter = ReporterIdle
    /\ ToolsIdle

\* the effect of a call on the reporter, what it returns or raises
Called(op, state, result) ==
    /\ reporter' = state
    /\ last' = [op |-> op, result |-> result]
    /\ UNCHANGED <<aggVars, clock, anchor, recorded, calc, toolVars, sysVars>>

\* connect(): outcome says which SDK call raises, if any
Connect(outcome) ==
    Called("connect",
           IF outcome = "create_raises"
           THEN [reporter EXCEPT !.connected = FALSE]
           ELSE IF outcome = "connect_raises"
           THEN [reporter EXCEPT !.client = "client", !.connected = FALSE]
           ELSE [reporter EXCEPT !.client = "client", !.connected = TRUE],
           IF outcome = "returns" THEN "None" ELSE "raises")

\* disconnect(): a client.disconnect() that raises is logged, connected stays
Disconnect(returns) ==
    Called("disconnect",
           IF reporter.client # "None" /\ reporter.connected /\ returns
           THEN [reporter EXCEPT !.connected = FALSE]
           ELSE reporter,
           "None")

\* a send that counts the message before send_message has returned
send_counted_first(state, messageType, returns) ==
    IF ~state.connected THEN state
    ELSE [state EXCEPT
            !.message_count = @ + 1,
            !.hub = IF returns
                    THEN Append(@, [messageType |-> messageType,
                                    messageId |-> state.message_count])
                    ELSE @]

\* a send that takes a failure of the try block for a lost connection
send_failure_disconnects(state, messageType, returns) ==
    IF ~state.connected THEN state
    ELSE IF ~returns THEN [state EXCEPT !.connected = FALSE]
    ELSE [state EXCEPT
            !.message_count = @ + 1,
            !.hub = Append(@, [messageType |-> messageType,
                               messageId |-> state.message_count])]

\* a send that does not test the connected flag
send_unconnected(state, messageType, returns) ==
    IF ~returns THEN state
    ELSE [state EXCEPT
            !.message_count = @ + 1,
            !.hub = Append(@, [messageType |-> messageType,
                               messageId |-> state.message_count])]

\* the body the three send methods share: not connected, nothing happens;
\* else the payload carries messageId = message_count, and message_count
\* goes up once send_message has returned (returns says whether building
\* and sending the message goes through or something in the try block raises)
send(state, messageType, returns) ==
    IF ~state.connected \/ ~returns THEN state
    ELSE [state EXCEPT
            !.message_count = @ + 1,
            !.hub = Append(@, [messageType |-> messageType,
                               messageId |-> state.message_count])]

\* what a send method returns
sent(state, returns) == state.connected /\ returns

\* whether the call reaches self.client.send_message(message): never on a
\* reporter that is not connected, always when the try block goes through;
\* when the try block raises, reached says whether send_message raised (TRUE)
\* or a statement before it did (FALSE)
handed(state, returns, reached) == state.connected /\ (returns \/ reached)

\* the effect of a send method on the reporter, what it returns, and whether
\* it has called send_message
CalledSend(op, state, result, handedOver) ==
    /\ reporter' = state
    /\ last' = [op |-> op, result |-> result, handed |-> handedOver]
    /\ UNCHANGED <<aggVars, clock, anchor, recorded, calc, toolVars, sysVars>>

SendPositionData(returns, reached) ==
    /\ reporter.message_count < MaxMessages
    /\ CalledSend("send_position_data", send(reporter, "positioning", returns),
                  sent(reporter, returns), handed(reporter, returns, reached))

SendDistanceMeasurements(returns, reached) ==
    /\ reporter.message_count < MaxMessages
    /\ CalledSend("send_distance_measurements",
                  send(reporter, "distance", returns),
                  sent(reporter, returns), handed(reporter, returns, reached))

SendStatus(returns, reached) ==
    /\ reporter.message_count < MaxMessages
    /\ CalledSend("send_status", send(reporter, "status", returns),
                  sent(reporter, returns), handed(reporter, returns, reached))

ReporterNext ==
    \/ \E outcome \in {"returns", "create_raises", "connect_raises"} :
          Connect(outcome)
    \/ \E returns \in BOOLEAN : Disconnect(returns)
    \/ \E returns, reached \in BOOLEAN : SendPositionData(returns, reached)
    \/ \E returns, reached \in BOOLEAN :
          SendDistanceMeasurements(returns, reached)
    \/ \E returns, reached \in BOOLEAN : SendStatus(returns, reached)

ReporterSpec == ReporterInit /\ [][ReporterNext]_vars

(***************************************************************************)
(* Specification SerialSpec: serial_collector.py started as                *)
(* `--format raw tag`, the way DistanceCollector.start launches it.  One   *)
(* DWM3001Collector, connected, runs start_tag without a duration: it      *)
(* sends the initf command and then reads the device line by line,         *)
(* printing to stdout what the supervisor's reader will read.              *)
(***************************************************************************)
\* a D_cm that is JSON null
NullValue == [type |-> "null", val |-> 0]

\* a line the device sends: a Line, and whether the JSON object has the key
\* "Block".  Beside the kinds of Line, kind is "legacy" (not JSON, text
\* with a "dist: <n> m", "rssi:" or "ts:" field) or "array" (a JSON array)
DeviceLine(kind, block, results) ==
    [kind |-> kind, results |-> results, Block |-> block]

DeviceLines ==
    {DeviceLine(k, FALSE, <<>>) :
        k \in {"blank", "text", "legacy", "scalar", "array"}}
    \cup {DeviceLine("no_results", TRUE, <<>>),
          DeviceLine("results_scalar", TRUE, <<>>),
          DeviceLine("object", FALSE, <<Entry("Ok", "0x0001", IntValue(140))>>),
          DeviceLine("object", TRUE, <<>>),
          DeviceLine("object", TRUE, <<Entry("Ok", "0x0001", IntValue(140))>>),
          DeviceLine("object", TRUE, <<Entry("Ok", "0x0001", IntValue(90)),
                                       Entry("Ok", "0x0002", IntValue(90))>>),
          DeviceLine("object", TRUE, <<Entry("Err", "0x0001", IntValue(40))>>),
          DeviceLine("object", TRUE, <<Entry("Err", "0x0001", IntValue(40)),
                                       Entry("Ok", "0x0003", IntValue(40)),
                                       Entry("Ok", "0x0002", IntValue(60))>>),
          DeviceLine("object", TRUE, <<Entry("Ok", "absent", IntValue(50)),
                                       Entry("Ok", "0x0002", IntValue(70))>>),
          DeviceLine("object", TRUE, <<Entry("Ok", "0x0001", Absent),
                                       Entry("Ok", "0x0002", IntValue(90))>>),
          DeviceLine("object", TRUE, <<Entry("Ok", "0x0002", NullValue)>>),
          DeviceLine("object", TRUE, <<NotAnObject>>)}

\* lines 217-234: the loop over data['results'].  list is parsed_results,
\* raises says that the loop ends in an exception: result.get on an element
\* that is not a dict (AttributeError), or result.get('D_cm', 0) / 100.0 on
\* a D_cm that is null or a string (TypeError)
RECURSIVE parsed_results(_)
parsed_results(results) ==
    IF results = <<>> THEN [list |-> <<>>, raises |-> FALSE]
    ELSE
    LET result == Head(results)
        rest == parsed_results(Tail(results))
    IN  IF ~result.object THEN [list |-> <<>>, raises |-> TRUE]
        ELSE IF result.Status # "Ok" THEN rest
        ELSE IF result.D_cm.type \in {"null", "str"}
        THEN [list |-> <<>>, raises |-> TRUE]
        ELSE [list |-> <<[address |-> IF result.Addr = "absent" THEN "Unknown"
                                      ELSE result.Addr,
                          distance_cm |-> IF result.D_cm.type = "absent"
                                          THEN NullValue ELSE result.D_cm]>>
                       \o rest.list,
              raises |-> rest.raises]

\* parse_ranging_data(line): what it returns, or the exception that leaves
\* it.  Only json.JSONDecodeError is caught (line 244); a line that is JSON
\* but fits neither format goes on to the patterns and comes out as None
parse_ranging_data(line) ==
    IF line.kind = "scalar" THEN [raises |-> "TypeError"]
    ELSE IF line.kind = "legacy" THEN [raw_line |-> line]
    ELSE IF line.kind \in {"results_scalar", "object"} /\ line.Block
    THEN IF line.kind = "results_scalar" THEN [raises |-> "TypeError"]
         ELSE LET r == parsed_results(line.results)
              IN  IF r.raises THEN [raises |-> "TypeError"]
                  ELSE IF r.list = <<>> THEN None
                  ELSE [results |-> r.list]
    ELSE None

RECURSIVE raw_results(_)
raw_results(list) ==
    IF list = <<>> THEN <<>>
    ELSE <<Entry("Ok", Head(list).address, Head(list).distance_cm)>>
             \o raw_results(Tail(list))

\* output_data(data, 'raw'), lines 366-388: the line printed
output_data(data) ==
    IF "results" \in DOMAIN data
    THEN [prefix |-> FALSE, line |-> DeviceLine("object", TRUE, raw_results(data.results))]
    ELSE [prefix |-> FALSE, line |-> data.raw_line]

\* lines 136-143 for one line that read_line has returned: what is printed
printed_for(line) ==
    LET parsed_data == parse_ranging_data(line)
    IN  IF "raises" \in DOMAIN parsed_data THEN <<>>
        ELSE IF parsed_data # None THEN <<output_data(parsed_data)>>
        ELSE <<[prefix |-> TRUE, line |-> line]>>

\* example_usage.py lines 83-84: the reader strips the prefix 'RAW: '
received(output) == output.line

\* example_usage.py lines 76-108 on the lines printed: the measurements the
\* reader records, in order
RECURSIVE recorded_from(_)
recorded_from(outputs) ==
    IF outputs = <<>> THEN <<>>
    ELSE line_outcome(received(Head(outputs))).todo \o recorded_from(Tail(outputs))

SerialInit ==
    /\ SeqIdle
    /\ SysIdle
    /\ calc = CalcIdle
    /\ reporter = ReporterIdle
    /\ ToolsIdle

\* start_tag up to the loop, lines 104-127: sent says whether send_command
\* wrote the initf command
TagStart(sent_command) ==
    /\ collector.pc = "idle"
    /\ collector' = [collector EXCEPT
                       !.pc = IF sent_command THEN "collecting" ELSE "returned"]
    /\ last' = [op |-> "start_tag", result |-> None]
    /\ UNCHANGED <<aggVars, clock, anchor, recorded, calc, reporter, animator, sysVars>>

\* one turn of the loop, lines 131-143: read_line returns None for a blank
\* line; an exception out of parse_ranging_data reaches line 147, outside
\* the loop, and start_tag returns
TagLine(line) ==
    /\ collector.pc = "collecting"
    /\ collector.lines < MaxLines
    /\ LET parsed_data == IF line.kind = "blank" THEN None
                          ELSE parse_ranging_data(line)
       IN  /\ collector' =
                [pc |-> IF "raises" \in DOMAIN parsed_data THEN "failed"
                        ELSE "collecting",
                 printed |-> IF line.kind = "blank" THEN collector.printed
                             ELSE collector.printed \o printed_for(line),
                 lines |-> collector.lines + 1]
           /\ last' = [op |-> "tag_line", result |-> parsed_data, line |-> line]
    /\ UNCHANGED <<aggVars, clock, anchor, recorded, calc, reporter, animator, sysVars>>

\* Ctrl+C: lines 145-146
TagInterrupt ==
    /\ collector.pc = "collecting"
    /\ collector' = [collector EXCEPT !.pc = "stopped"]
    /\ last' = [op |-> "interrupt", result |-> None]
    /\ UNCHANGED <<aggVars, clock, anchor, recorded, calc, reporter, animator, sysVars>>

SerialNext ==
    \/ \E sent_command \in BOOLEAN : TagStart(sent_command)
    \/ \E line \in DeviceLines : TagLine(line)
    \/ TagInterrupt

SerialSpec == SerialInit /\ [][SerialNext]_vars

(***************************************************************************)
(* Specification AnimatorSpec: one KeyframeAnimator of dummy_iot_device.py *)
(* is constructed, started, and asked for its position while time passes.  *)
(* Times are whole seconds; noise_cm is left at its default (0.0, 0.0), so *)
(* _add_noise returns the position it is given.                            *)
(***************************************************************************)
\* the values time.time() takes
AnimatorInstants == 0..MaxElapsed

\* a time that is set (not None)
At(t) == [at |-> t]

Point(x, y) == <<RInt(x), RInt(y)>>

\* the keyframes argument: a dict from timestamp to position, so no two
\* keyframes share a timestamp
KeyframeDicts ==
    {<<>>,
     0 :> Point(1, 1),
     2 :> Point(1, 0),
     (0 :> Point(0, 0)) @@ (2 :> Point(2, 1)),
     (1 :> Point(0, 0)) @@ (2 :> Point(1, 1)) @@ (3 :> Point(0, 1))}

PauseSeconds == {0, 1}

\* sorted(keyframes.items()): the <<timestamp, position>> pairs by timestamp
RECURSIVE sorted_items(_, _)
sorted_items(keyframes, timestamps) ==
    IF timestamps = {} THEN <<>>
    ELSE LET first == CHOOSE t \in timestamps : \A u \in timestamps : t <= u
         IN  <<<<first, keyframes[first]>>>>
                \o sorted_items(keyframes, timestamps \ {first})

\* lines 145-159: the loop over consecutive keyframes, from index i
RECURSIVE interpolate_from(_, _, _)
interpolate_from(keyframes, t, i) ==
    IF i >= Len(keyframes) THEN keyframes[Len(keyframes)][2]
    ELSE LET t1 == keyframes[i][1]
             t2 == keyframes[i + 1][1]
             p1 == keyframes[i][2]
             p2 == keyframes[i + 1][2]
         IN  IF t1 <= t /\ t <= t2
             THEN IF t2 = t1 THEN p1
                  ELSE LET ratio == Rat(t - t1, t2 - t1)
                       IN  <<RAdd(p1[1], RMul(RSub(p2[1], p1[1]), ratio)),
                             RAdd(p1[2], RMul(RSub(p2[2], p1[2]), ratio))>>
             ELSE interpolate_from(keyframes, t, i + 1)

\* _interpolate_position(t), lines 124-159
interpolate_position(keyframes, local_time) ==
    LET t == local_time + keyframes[1][1]
    IN  IF t <= keyframes[1][1] THEN keyframes[1][2]
        ELSE IF t >= keyframes[Len(keyframes)][1]
        THEN keyframes[Len(keyframes)][2]
        ELSE interpolate_from(keyframes, t, 1)

\* lines 88-122 of get_position: the position in the cycle.  a is the
\* animator as the pause handling has left it.  a % b with b = 0 raises
\* ZeroDivisionError
position_in_cycle(a, elapsed, now) ==
    LET first == a.keyframes[1][2]
        final == a.keyframes[Len(a.keyframes)][2]
        cycle == IF a.back_and_forth
                 THEN a.duration * 2 + a.pause_seconds
                 ELSE a.duration + a.pause_seconds
        elapsed_in_cycle == elapsed % cycle
    IN  IF cycle = 0 THEN [state |-> a, raises |-> "ZeroDivisionError"]
        ELSE IF a.back_and_forth
        THEN IF elapsed_in_cycle < a.duration
             THEN [state |-> [a EXCEPT !.forward = TRUE],
                   result |-> interpolate_position(a.keyframes, elapsed_in_cycle)]
             ELSE IF elapsed_in_cycle < a.duration * 2
             THEN [state |-> [a EXCEPT !.forward = FALSE],
                   result |-> interpolate_position(a.keyframes,
                                                   a.duration * 2 - elapsed_in_cycle)]
             ELSE [state |-> [a EXCEPT !.paused = TRUE, !.pause_start = At(now)],
                   result |-> IF a.forward THEN final ELSE first]
        ELSE IF elapsed_in_cycle >= a.duration
        THEN [state |-> [a EXCEPT !.paused = TRUE, !.pause_start = At(now)],
              result |-> final]
        ELSE [state |-> a,
              result |-> interpolate_position(a.keyframes, elapsed_in_cycle)]

\* get_position() when time.time() is now, lines 57-122: the animator
\* afterwards, and the position returned or the exception raised
get_position(a, now) ==
    IF a.start_time = None
    THEN [state |-> a, result |-> a.keyframes[1][2]]
    ELSE IF ~a.paused
    THEN position_in_cycle(a, now - a.start_time.at, now)
    ELSE LET pause_start == IF a.pause_start = None THEN now
                            ELSE a.pause_start.at
         IN  IF now - pause_start >= a.pause_seconds
             THEN position_in_cycle([a EXCEPT !.paused = FALSE,
                                              !.pause_start = None,
                                              !.start_time = At(now)],
                                    0, now)
             ELSE [state |-> [a EXCEPT !.pause_start = At(pause_start)],
                   result |-> IF a.forward THEN a.keyframes[Len(a.keyframes)][2]
                              ELSE a.keyframes[1][2]]

AnimatorInit ==
    /\ SeqIdle
    /\ SysIdle
    /\ calc = CalcIdle
    /\ reporter = ReporterIdle
    /\ ToolsIdle

AnimatorCalled(op, state, result) ==
    /\ animator' = state
    /\ last' = [op |-> op, result |-> result]
    /\ UNCHANGED <<aggVars, clock, anchor, recorded, calc, reporter, collector, sysVars>>

\* KeyframeAnimator(keyframes, back_and_forth, pause_seconds), lines 20-49
AnimatorConstruct(keyframes, back_and_forth, pause_seconds) ==
    /\ animator = None
    /\ LET items == sorted_items(keyframes, DOMAIN keyframes)
       IN  IF items = <<>>
           THEN AnimatorCalled("construct", None, "ValueError")
           ELSE AnimatorCalled("construct",
                    [keyframes |-> items,
                     back_and_forth |-> back_and_forth,
                     pause_seconds |-> pause_seconds,
                     duration |-> items[Len(items)][1] - items[1][1],
                     start_time |-> None,
                     forward |-> TRUE,
                     paused |-> FALSE,
                     pause_start |-> None],
                    "None")

\* start(), lines 51-55
AnimatorStart ==
    /\ animator # None
    /\ AnimatorCalled("start",
                      [animator EXCEPT !.start_time = At(clock),
                                       !.forward = TRUE,
                                       !.paused = FALSE],
                      "None")

\* get_position()
GetPosition ==
    /\ animator # None
    /\ LET r == get_position(animator, clock)
       IN  AnimatorCalled("get_position", r.state,
                          IF "raises" \in DOMAIN r THEN [raises |-> r.raises]
                          ELSE [position |-> r.result])

\* time passes
AnimatorTime ==
    /\ animator # None
    /\ \E t \in AnimatorInstants : t > clock /\ clock' = t
    /\ UNCHANGED <<aggVars, anchor, recorded, last, calc, reporter, toolVars, sysVars>>

AnimatorNext ==
    \/ \E keyframes \in KeyframeDicts, back_and_forth \in BOOLEAN,
          pause_seconds \in PauseSeconds :
          AnimatorConstruct(keyframes, back_and_forth, pause_seconds)
    \/ AnimatorStart
    \/ GetPosition
    \/ AnimatorTime

AnimatorSpec == AnimatorInit /\ [][AnimatorNext]_vars

(***************************************************************************)
(* Specification ConfigSpec: a DistanceCollector is constructed with any   *)
(* averaging window of ConfigWindows, then used as under Spec.             *)
(***************************************************************************)
ConfigWindows == {-AVERAGING_WINDOW_SECONDS, 0, AVERAGING_WINDOW_SECONDS}

ConfigInit ==
    /\ beacon1_distances = <<>>
    /\ beacon2_distances = <<>>
    /\ clock = 0
    /\ anchor = 1
    /\ recorded = <<>>
    /\ last = [op |-> "init", result |-> None]
    /\ calc = CalcIdle
    /\ reporter = ReporterIdle
    /\ ToolsIdle
    /\ tag_collector = None
    /\ system = [running |-> FALSE, beacon1_process |-> "None",
                 beacon2_process |-> "None"]
    /\ main = MainIdle
    /\ reader = ReaderIdle
    /\ lines_read = 0
    /\ sink = SinkIdle

\* DistanceCollector.__init__(port, averaging_window): every value is stored
\* as given, none is tested
Construct(averaging_window) ==
    /\ tag_collector = None
    /\ tag_collector' = [running |-> FALSE, process |-> "None", thread |-> "None",
                         averaging_window |-> averaging_window]
    /\ beacon1_distances' = <<>>
    /\ beacon2_distances' = <<>>
    /\ last' = [op |-> "construct", result |-> None]
    /\ UNCHANGED <<clock, anchor, recorded, calc, reporter, toolVars, system, main, reader,
                   lines_read, sink>>

ConstructCall == \E w \in ConfigWindows : Construct(w)

\* the calls made on the constructed collector
ConfigUse == tag_collector # None /\ Next

ConfigNext == ConstructCall \/ ConfigUse

ConfigSpec == ConfigInit /\ [][ConfigNext]_vars

(***************************************************************************)
(* Binary64 arithmetic.  Python's float is the IEEE 754 double: 53         *)
(* significant bits, every operation rounded to nearest, ties to even.     *)
(* Naturals of any size are sequences of bits, lowest bit first, without a *)
(* zero at the top (the empty sequence is 0); they are added, subtracted,  *)
(* multiplied and divided in limbs of LimbBits bits.  Overflow, underflow  *)
(* and subnormal numbers are out of reach of the values used and not       *)
(* modelled.                                                               *)
(***************************************************************************)
Precision == 53
LimbBits == 15
LimbBase == 2 ^ LimbBits

RECURSIVE Bits(_)
Bits(n) == IF n = 0 THEN <<>> ELSE <<n % 2>> \o Bits(n \div 2)

\* a without the zeros at its top
Trim(a) ==
    LET ones == {i \in 1..Len(a) : a[i] = 1}
    IN  IF ones = {} THEN <<>>
        ELSE SubSeq(a, 1, CHOOSE i \in ones : \A j \in ones : j <= i)

BitAt(a, i) == IF i <= Len(a) THEN a[i] ELSE 0

\* the limbs of a, lowest first, and back
RECURSIVE LimbFrom(_, _, _)
LimbFrom(a, i, t) ==
    IF t = LimbBits THEN 0
    ELSE BitAt(a, i + t + 1) * (2 ^ t) + LimbFrom(a, i, t + 1)

Limbs(a) ==
    [j \in 1..((Len(a) + LimbBits - 1) \div LimbBits) |->
        LimbFrom(a, LimbBits * (j - 1), 0)]

FromLimbs(x) ==
    Trim([i \in 1..(LimbBits * Len(x)) |->
            (x[((i - 1) \div LimbBits) + 1] \div (2 ^ ((i - 1) % LimbBits))) % 2])

LimbAt(x, j) == IF j <= Len(x) THEN x[j] ELSE 0
Rest(x) == IF x = <<>> THEN <<>> ELSE Tail(x)

\* x + y + carry
RECURSIVE LAddC(_, _, _)
LAddC(x, y, carry) ==
    IF x = <<>> /\ y = <<>> THEN (IF carry = 0 THEN <<>> ELSE <<carry>>)
    ELSE LET s == LimbAt(x, 1) + LimbAt(y, 1) + carry
         IN  <<s % LimbBase>> \o LAddC(Rest(x), Rest(y), s \div LimbBase)

\* x - y - borrow, for x >= y + borrow
RECURSIVE LSubB(_, _, _)
LSubB(x, y, borrow) ==
    IF x = <<>> THEN <<>>
    ELSE LET s == x[1] - LimbAt(y, 1) - borrow
         IN  <<(s + LimbBase) % LimbBase>>
             \o LSubB(Tail(x), Rest(y), IF s < 0 THEN 1 ELSE 0)

\* x * s + carry for one limb s
RECURSIVE LMulSmall(_, _, _)
LMulSmall(x, s, carry) ==
    IF x = <<>> THEN (IF carry = 0 THEN <<>> ELSE <<carry>>)
    ELSE LET p == x[1] * s + carry
         IN  <<p % LimbBase>> \o LMulSmall(Tail(x), s, p \div LimbBase)

RECURSIVE LMul(_, _)
LMul(x, y) ==
    IF x = <<>> THEN <<>>
    ELSE LAddC(LMulSmall(y, x[1], 0), <<0>> \o LMul(Tail(x), y), 0)

\* quotient and remainder of x by one limb d > 0, from the top limb down
RECURSIVE LDivMod(_, _)
LDivMod(x, d) ==
    IF x = <<>> THEN [q |-> <<>>, r |-> 0]
    ELSE LET upper == LDivMod(Tail(x), d)
             cur == upper.r * LimbBase + x[1]
         IN  [q |-> <<cur \div d>> \o upper.q, r |-> cur % d]

BAdd(a, b) == FromLimbs(LAddC(Limbs(a), Limbs(b), 0))
BSub(a, b) == FromLimbs(LSubB(Limbs(a), Limbs(b), 0))
BMul(a, b) == FromLimbs(LMul(Limbs(a), Limbs(b)))

\* quotient and remainder of a by d, 0 < d < LimbBase
BDivMod(a, d) ==
    LET x == LDivMod(Limbs(a), d)
    IN  [q |-> FromLimbs(x.q), r |-> x.r]

\* the sign of a - b
BCmp(a, b) ==
    IF Len(a) # Len(b) THEN Sign(Len(a) - Len(b))
    ELSE LET differ == {i \in 1..Len(a) : a[i] # b[i]}
         IN  IF differ = {} THEN 0
             ELSE LET top == CHOOSE i \in differ : \A j \in differ : j <= i
                  IN  a[top] - b[top]

\* a * 2^k
BShl(a, k) ==
    IF a = <<>> THEN <<>>
    ELSE [i \in 1..(Len(a) + k) |-> IF i <= k THEN 0 ELSE a[i - k]]

\* a = Odd(a) * 2^Twos(a) for a > 0
Twos(a) == (CHOOSE i \in 1..Len(a) : a[i] = 1 /\ \A j \in 1..(i - 1) : a[j] = 0) - 1
Odd(a) == SubSeq(a, Twos(a) + 1, Len(a))

\* the value of a short a
RECURSIVE Value(_)
Value(a) == IF a = <<>> THEN 0 ELSE a[1] + 2 * Value(Tail(a))

\* a float: sgn * m * 2^e with m of exactly Precision bits, or zero
FloatZero == [sgn |-> 0, m |-> <<>>, e |-> 0]

\* sgn * (bits + f) * 2^e rounded to a float, where 0 <= f < 1 and sticky
\* says whether f > 0 (sticky only with more than Precision + 1 bits)
RoundFloat(sgn, bits, e, sticky) ==
    LET n == Len(bits)
    IN  IF sgn = 0 \/ bits = <<>> THEN FloatZero
        ELSE IF n <= Precision
        THEN [sgn |-> sgn, m |-> BShl(bits, Precision - n), e |-> e - (Precision - n)]
        ELSE LET k == n - Precision
                 q == SubSeq(bits, k + 1, n)
                 below == sticky \/ \E i \in 1..(k - 1) : bits[i] = 1
                 up == bits[k] = 1 /\ (below \/ q[1] = 1)
                 r == IF up THEN BAdd(q, <<1>>) ELSE q
             IN  IF Len(r) > Precision
                 THEN [sgn |-> sgn, m |-> Tail(r), e |-> e + k + 1]
                 ELSE [sgn |-> sgn, m |-> r, e |-> e + k]

\* float(n) for an int n
FromInt(n) == RoundFloat(Sign(n), Bits(Abs(n)), 0, FALSE)

FNeg(a) == [a EXCEPT !.sgn = -a.sgn]
FAbs(a) == [a EXCEPT !.sgn = Abs(a.sgn)]

\* a + b before it is rounded: sgn * m * 2^e with m of any length
ExactAdd(a, b) ==
    IF a.sgn = 0 THEN b
    ELSE IF b.sgn = 0 THEN a
    ELSE LET e == IF a.e < b.e THEN a.e ELSE b.e
             am == BShl(a.m, a.e - e)
             bm == BShl(b.m, b.e - e)
             c == BCmp(am, bm)
         IN  IF a.sgn = b.sgn THEN [sgn |-> a.sgn, m |-> BAdd(am, bm), e |-> e]
             ELSE IF c = 0 THEN FloatZero
             ELSE IF c > 0 THEN [sgn |-> a.sgn, m |-> BSub(am, bm), e |-> e]
             ELSE [sgn |-> b.sgn, m |-> BSub(bm, am), e |-> e]

\* the sign of a - b, that is a < b, a = b or a > b
FCmp(a, b) == ExactAdd(a, FNeg(b)).sgn

FAdd(a, b) == LET x == ExactAdd(a, b) IN RoundFloat(x.sgn, x.m, x.e, FALSE)
FSub(a, b) == FAdd(a, FNeg(b))
FMul(a, b) == RoundFloat(a.sgn * b.sgn, BMul(a.m, b.m), a.e + b.e, FALSE)

\* a / b for b # 0 with b = k * 2^t, k odd and below LimbBase (100.0, 2.0,
\* 4.0, a count): the quotient by k is taken with Precision + LimbBits bits
\* or more; a divisor of another form has no quotient here
FDiv(a, b) ==
    IF Len(Odd(b.m)) > LimbBits THEN [unsupported |-> "FDiv"]
    ELSE LET x == BDivMod(BShl(a.m, 2 * LimbBits), Value(Odd(b.m)))
         IN  RoundFloat(a.sgn * b.sgn, x.q,
                        a.e - (b.e + Twos(b.m)) - 2 * LimbBits, x.r # 0)

(***************************************************************************)
(* Specification FloatSolverSpec: one calculate_position call on the       *)
(* calculator PositioningSystem builds (beacons at BEACON1_POSITION and    *)
(* BEACON2_POSITION, on a horizontal line), computed in binary64 as the    *)
(* interpreter computes it.  The distances are those the reader makes of   *)
(* D_cm values around a pair whose circles touch (24 cm and 176 cm from    *)
(* beacons 200 cm apart); the average of a window of one sample is the     *)
(* sample.                                                                 *)
(***************************************************************************)
\* how far the D_cm values lie from 24 and from 176
MaxCmOffset == 4

FloatCm1 == (24 - MaxCmOffset)..(24 + MaxCmOffset)
FloatCm2 == (176 - MaxCmOffset)..(176 + MaxCmOffset)

\* line 97: distance_m = distance_cm / 100.0
distance_m_binary64(distance_cm) == FDiv(FromInt(distance_cm), FromInt(100))

\* a configuration constant as the float it is
Binary64(r) == FDiv(FromInt(r.num), FromInt(r.den))
Binary64Position(pos) == <<Binary64(pos[1]), Binary64(pos[2])>>

\* lines 194-229 for y1 == y2; x ** 2 is the rounded product, H stays the
\* square root of the discriminant it is taken of
trilaterate_binary64(beacon1_pos, beacon2_pos, dist1, dist2) ==
    LET x1 == beacon1_pos[1]
        x2 == beacon2_pos[1]
        d == FAbs(FSub(x2, x1))
    IN  IF d.sgn = 0 THEN Raises("ZeroDivisionError")
        ELSE
        LET A == FDiv(FAdd(FSub(FMul(d, d), FMul(dist2, dist2)),
                           FMul(dist1, dist1)),
                      FMul(FromInt(2), d))
            disc == FSub(FMul(dist1, dist1), FMul(A, A))
        IN  IF disc.sgn < 0 THEN Returns(None)
            ELSE Returns(<<FAdd(FDiv(FMul(A, FSub(x2, x1)), d), x1),
                           [sqrt |-> disc]>>)

calculate_position_binary64(beacon1_pos, beacon2_pos, dist1, dist2) ==
    IF dist1.sgn <= 0 \/ dist2.sgn <= 0 THEN None
    ELSE except_exception(trilaterate_binary64(beacon1_pos, beacon2_pos,
                                               dist1, dist2))

FloatSolverInit ==
    /\ SeqIdle
    /\ SysIdle
    /\ reporter = ReporterIdle
    /\ ToolsIdle
    /\ \E c1 \in FloatCm1, c2 \in FloatCm2 :
          calc = [beacon1_pos |-> Binary64Position(BEACON1_POSITION),
                  beacon2_pos |-> Binary64Position(BEACON2_POSITION),
                  tag |-> None, d_cm |-> <<c1, c2>>,
                  dist1 |-> distance_m_binary64(c1),
                  dist2 |-> distance_m_binary64(c2),
                  called |-> FALSE, position |-> None]

\* position = self.calculator.calculate_position(dist1, dist2)
FloatSolve ==
    /\ ~calc.called
    /\ calc' = [calc EXCEPT
                  !.called = TRUE,
                  !.position = calculate_position_binary64(
                                   calc.beacon1_pos, calc.beacon2_pos,
                                   calc.dist1, calc.dist2)]
    /\ UNCHANGED <<aggVars, seqVars, reporter, toolVars, sysVars>>

FloatSolverNext == FloatSolve

FloatSolverSpec == FloatSolverInit /\ [][FloatSolverNext]_vars

(***************************************************************************)
(* Properties of the windows under Spec.                                   *)
(***************************************************************************)
NonDecreasing(h) == \A i \in 1..(Len(h) - 1) : h[i][1] <= h[i + 1][1]

\* the timestamp of the sample recorded last
LastT(h) == h[Len(h)][1]

\* the largest timestamp ever recorded
MaxT(h) == CHOOSE t \in {h[i][1] : i \in 1..Len(h)} :
               \A i \in 1..Len(h) : h[i][1] <= t

\* the unweighted mean of the distances of h, "no data" for none
MeanOf(h) == IF h = <<>> THEN None ELSE RDiv(SumDist(h), RInt(Len(h)))

InHalfOpenWindow(s, now) == now - AVERAGING_WINDOW_SECONDS < s[1] /\ s[1] <= now
InClosedWindow(s, now) == now - AVERAGING_WINDOW_SECONDS <= s[1] /\ s[1] <= now

\* an average call has just returned, after records with non-decreasing
\* timestamps, none later than the call's now, the latest not stale
InOrderAverage ==
    /\ last.op = "average"
    /\ NonDecreasing(recorded)
    /\ recorded # <<>> =>
          /\ LastT(recorded) <= clock
          /\ clock - LastT(recorded) <= DISTANCE_TIMEOUT_SECONDS

\* C1 as stated: after records with non-decreasing timestamps, average(now)
\* returns the mean of the distances recorded with a timestamp in the
\* half-open interval (now - window, now], and "no data" when there is none.
C1_MeanOverHalfOpenWindow ==
    InOrderAverage =>
        last.result = MeanOf(SelectSeq(recorded, LAMBDA s : InHalfOpenWindow(s, clock)))

\* C1 amended: after records with non-decreasing timestamps, average(now)
\* returns the mean of the distances recorded with a timestamp in the closed
\* interval [now - window, now] (a sample of age exactly one window still
\* counts), and "no data" when there is none.
C1_MeanOverClosedWindow ==
    InOrderAverage =>
        last.result = MeanOf(SelectSeq(recorded, LAMBDA s : InClosedWindow(s, clock)))

\* three in-order records, the first older than the window and evicted, the
\* second exactly one window old and averaged together with the third
C1_Witness ==
    /\ InOrderAverage
    /\ Len(recorded) = 3
    /\ recorded[1][1] < clock - AVERAGING_WINDOW_SECONDS
    /\ recorded[2][1] = clock - AVERAGING_WINDOW_SECONDS
    /\ recorded[2][2] # recorded[3][2]
    /\ distance_list(anchor) = SubSeq(recorded, 2, 3)
    /\ last.result = RDiv(RAdd(recorded[2][2], recorded[3][2]), RInt(2))

\* an average call has just returned and the sample recorded last is older
\* than the staleness timeout
StaleAverage ==
    /\ last.op = "average"
    /\ recorded # <<>>
    /\ clock - LastT(recorded) > DISTANCE_TIMEOUT_SECONDS

\* C2 as stated: when the sample recorded last is older than the staleness
\* timeout, average returns an outcome that is neither the "no data" outcome
\* (what it returns for an empty window) nor a number.
C2_StaleIsItsOwnOutcome ==
    StaleAverage =>
        /\ last.result # averaged_distance(<<>>, clock).result
        /\ ~IsNumber(last.result)

\* C2 amended: when the sample recorded last is older than the staleness
\* timeout, average returns None, the very outcome it returns for "no data",
\* and never a number, whatever else is in the window.
C2_StaleReturnsNone ==
    StaleAverage => last.result = None

\* the window still holds a sample inside the averaging window, recorded
\* before the stale one, and the call returned None
C2_Witness ==
    /\ StaleAverage
    /\ Len(distance_list(anchor)) >= 2
    /\ InClosedWindow(distance_list(anchor)[1], clock)
    /\ last.result = None

\* every sample in the window is at most one window older than the largest
\* timestamp ever recorded
WindowWithinMax ==
    \A i \in 1..Len(distance_list(anchor)) :
        distance_list(anchor)[i][1] >= MaxT(recorded) - AVERAGING_WINDOW_SECONDS

\* C3 as stated: after any record and average calls, timestamps out of order
\* included, every sample in the window has a timestamp >= the largest
\* timestamp ever recorded minus the averaging window.
C3_WindowWithinMaxAnyOrder ==
    recorded # <<>> => WindowWithinMax

\* C3 amended: after any record and average calls whose record timestamps
\* are non-decreasing, every sample in the window has a timestamp >= the
\* largest timestamp ever recorded minus the averaging window.
C3_WindowWithinMaxInOrder ==
    (recorded # <<>> /\ NonDecreasing(recorded)) => WindowWithinMax

\* the eviction scenario: records at t = 0.0, 1.0 and 2.1 s, the first gone
\* and the other two in the window
C3_Witness ==
    /\ Len(recorded) = 3
    /\ recorded[1][1] = 0 /\ recorded[2][1] = 10 /\ recorded[3][1] = 21
    /\ distance_list(anchor) = SubSeq(recorded, 2, 3)

(***************************************************************************)
(* Properties of the solver under SolverSpec.                              *)
(***************************************************************************)
\* the tag lies strictly on the conventional side of the baseline: the side
\* the docstring names ("the positive Y side of the beacon line"), which for
\* beacon2 to the right of beacon1 is the side perp(unit(beacon2 - beacon1))
\* = (-uy, ux) points to; for a vertical baseline, the side of that perp
OnConventionalSide ==
    LET b1 == calc.beacon1_pos  b2 == calc.beacon2_pos  p == calc.tag
        dx == RSub(b2[1], b1[1])
        cross == RSub(RMul(dx, RSub(p[2], b1[2])),
                      RMul(RSub(b2[2], b1[2]), RSub(p[1], b1[1])))
    IN  IF RSign(dx) = 0 THEN RSign(cross) > 0
        ELSE RSign(cross) = RSign(dx)

RoundTripCall ==
    /\ calc.called
    /\ calc.tag # None
    /\ calc.beacon1_pos # calc.beacon2_pos
    /\ OnConventionalSide

\* C9: for any two beacons that do not coincide and any tag position P
\* strictly on the conventional side of their baseline, solving for the
\* distances |P - beacon1| and |P - beacon2| returns P.
C9_RoundTrip ==
    RoundTripCall =>
        calc.position = <<FromRat(calc.tag[1]), FromRat(calc.tag[2])>>

\* a call with rational distances on the calculator the program builds,
\* beacons at (0, 0) and (2, 0)
DirectCall ==
    /\ calc.called
    /\ calc.tag = None
    /\ calc.beacon1_pos = BEACON1_POSITION
    /\ calc.beacon2_pos = BEACON2_POSITION

\* the circles of radius dist1 and dist2 around the two beacons, d apart,
\* do not meet
Infeasible(d, dist1, dist2) ==
    \/ RLt(RAdd(dist1, dist2), d)
    \/ RLt(d, RAbs(RSub(dist1, dist2)))

CollectorStopReturned == main.pc \in {"stop_beacons", "stopped"}

\* C4: once stop() has returned, no step appends a sample to an anchor's
\* window or evicts one from it, however the steps of stop() and of the
\* reader thread interleave.
C4_NoWriteAfterStop == [][CollectorStopReturned => UNCHANGED aggVars]_vars

\* stop() has returned after a reader thread had run and filled a window
C4_Witness ==
    /\ main.pc = "stopped"
    /\ tag_collector.thread = "started"
    /\ reader.pc = "r_done"
    /\ beacon1_distances # <<>>

\* C5: under every interleaving of the reader's record with a tick's
\* average on the same anchor, the number average returns is the unweighted
\* mean of the window's contents at one single instant of the call.
C5_AverageIsMeanAtOneInstant == sink.consistent

\* a tick is over: it has made its logging call, or an exception has ended it
TickReported == main.pc = "reported"
TickRaised == main.pc = "stop" /\ sink.raised
TickOver == TickReported \/ TickRaised

\* the tick's average of anchor 1, of anchor 2, has returned None
NoData1 == TickOver /\ main.beacon_num # 1 /\ main.dist1 = None
NoData2 == TickReported /\ main.dist2 = None

\* C6: a tick in which the average of anchor 1 or of anchor 2 is None emits
\* a diagnostic report that names exactly the anchors without data, and no
\* position report.
C6_DiagnosticNamesMissingAnchors ==
    (NoData1 \/ NoData2) =>
        /\ sink.emitted = 1
        /\ sink.report # None
        /\ sink.report.kind = "waiting"
        /\ (sink.report.status[1] = "no beacon1 data") <=> NoData1
        /\ (sink.report.status[2] = "no beacon2 data") <=> NoData2

\* the tick's solve of its two averages
TickPosition ==
    IF IsNumber(main.dist1) /\ IsNumber(main.dist2)
    THEN calculate_position(BEACON1_POSITION, BEACON2_POSITION,
                            FromRat(main.dist1), FromRat(main.dist2))
    ELSE None

\* C7: every tick emits exactly one report: a position report with the
\* solved (x, y), both averages and both sample counts if and only if both
\* averages are numbers and the solver returns a position, a diagnostic
\* report in every other case.
C7_OneReportPerTick ==
    TickOver =>
        /\ sink.emitted = 1
        /\ sink.report # None
        /\ IF TickPosition # None
           THEN /\ sink.report.kind = "position"
                /\ <<sink.report.x, sink.report.y>> = TickPosition
                /\ sink.report.d1 = main.dist1 /\ sink.report.d2 = main.dist2
                /\ sink.report.n1 \in 0..MaxLines /\ sink.report.n2 \in 0..MaxLines
           ELSE sink.report.kind \in {"waiting", "failed"}

\* C8: while the loop is running no input line, no window state and no
\* interleaving of the reader with a tick makes a tick raise and so end the
\* loop.
C8_NoTickRaises == ~sink.raised

(***************************************************************************)
(* Further properties of calculate_position, under SolverSpec.             *)
(***************************************************************************)
\* C11: calculate_position returns None whenever dist1 <= 0 or dist2 <= 0,
\* wherever the two beacons are.
C11_NonPositiveIsUnsolvable ==
    (calc.called /\ (RealSign(calc.dist1) <= 0 \/ RealSign(calc.dist2) <= 0))
        => calc.position = None

\* the tag on beacon 1: dist1 = 0 and dist2 = 2, the distance of the beacons
C11_Witness ==
    /\ calc.called
    /\ calc.beacon1_pos = BEACON1_POSITION /\ calc.beacon2_pos = BEACON2_POSITION
    /\ calc.dist1 = FromRat(RInt(0)) /\ calc.dist2 = FromRat(RInt(2))
    /\ calc.position = None

\* C12: when the two beacons coincide calculate_position returns None for
\* every pair of distances, and no exception leaves it.
C12_CoincidentIsUnsolvable ==
    (calc.called /\ calc.beacon1_pos = calc.beacon2_pos) => calc.position = None

\* both beacons at (1, 1) and two positive distances
C12_Witness ==
    /\ calc.called
    /\ calc.beacon1_pos = <<RInt(1), RInt(1)>>
    /\ calc.beacon2_pos = calc.beacon1_pos
    /\ RealSign(calc.dist1) > 0 /\ RealSign(calc.dist2) > 0
    /\ calc.position = None

\* the intersection of the two circles on the conventional side of the
\* baseline: the foot point beacon1 + A * u plus h * perp(u), h >= 0, with
\* u = (beacon2 - beacon1) / d and perp(u) the perpendicular of u that
\* points to the positive Y side (to the negative X side of a vertical
\* baseline)
ConventionalCandidate(beacon1_pos, beacon2_pos, dist1, dist2) ==
    LET dx == RSub(beacon2_pos[1], beacon1_pos[1])
        dy == RSub(beacon2_pos[2], beacon1_pos[2])
        dd == RAdd(RMul(dx, dx), RMul(dy, dy))
        N == RAdd(RSub(dd, Square(dist2)), Square(dist1))
        \* A / d
        k == RDiv(N, RMul(RInt(2), dd))
        hh == RSub(Square(dist1), RDiv(RMul(N, N), RMul(RInt(4), dd)))
        side == IF RSign(dx) = 0 THEN 1 ELSE RSign(dx)
    IN  << Real(RAdd(beacon1_pos[1], RMul(k, dx)), -side * RSign(dy),
                RDiv(RMul(hh, RMul(dy, dy)), dd)),
           Real(RAdd(beacon1_pos[2], RMul(k, dy)), side * RSign(dx),
                RDiv(RMul(hh, RMul(dx, dx)), dd)) >>

\* C13: whenever calculate_position returns a position, it is the candidate
\* with the non-negative offset along the fixed perpendicular of the
\* baseline, never the mirror candidate, wherever the beacons are.
C13_ReturnsConventionalCandidate ==
    (calc.called /\ calc.position # None) =>
        calc.position = ConventionalCandidate(calc.beacon1_pos, calc.beacon2_pos,
                                              calc.dist1, calc.dist2)

(***************************************************************************)
(* The sample count, under Spec.                                           *)
(***************************************************************************)
\* the samples of a window that are not due for eviction at time now
FreshAt(list, now) ==
    SelectSeq(list, LAMBDA s : s[1] >= now - AVERAGING_WINDOW_SECONDS)

\* C20: whenever get_measurement_count is called it returns the size of the
\* window after eviction: it counts the samples still inside the averaging
\* window and none that is due for eviction.
C20_CountsOnlyFreshSamples ==
    last.op = "count" =>
        last.result = RInt(Len(FreshAt(distance_list(anchor), clock)))

(***************************************************************************)
(* Properties of the handling of one line, under ReaderSpec.               *)
(***************************************************************************)
\* a step in which the reader handles a line
LineHandled == lines_read' = lines_read + 1

\* a ranging line whose entries all carry a status, an address and a number
\* as D_cm
IsRangingLine(line) ==
    /\ line.kind = "object"
    /\ \A i \in 1..Len(line.results) :
          /\ line.results[i].object
          /\ line.results[i].Status # "absent"
          /\ line.results[i].Addr # "absent"
          /\ line.results[i].D_cm.type = "int"

\* the samples a ranging line holds for the anchor of address addr: one for
\* each entry with Status "Ok" and that address, D_cm / 100 metres each
SamplesFor(results, addr, timestamp) ==
    LET usable == SelectSeq(results, LAMBDA e : e.Status = "Ok" /\ e.Addr = addr)
    IN  [i \in 1..Len(usable) |-> <<timestamp, Rat(usable[i].D_cm.val, 100)>>]

\* a window after the samples (stamped clock) have been recorded in it
WindowAfter(window, samples) ==
    IF samples = <<>> THEN window ELSE FreshAt(window \o samples, clock)

\* C14: an entry of a ranging line produces a sample if and only if its
\* Status is "Ok" and its Addr is 0x0001 or 0x0002; the sample goes to
\* anchor 1 for 0x0001 and to anchor 2 for 0x0002, with distance D_cm / 100;
\* an entry with another status or address changes no window and does not
\* keep the other entries of the line from being recorded.
C14_EntriesRecordedByStatusAndAddress ==
    [][(LineHandled /\ IsRangingLine(last'.line)) =>
          /\ beacon1_distances' =
               WindowAfter(beacon1_distances,
                           SamplesFor(last'.line.results, "0x0001", clock))
          /\ beacon2_distances' =
               WindowAfter(beacon2_distances,
                           SamplesFor(last'.line.results, "0x0002", clock))]_vars

\* an entry with status Err, then a usable entry for anchor 2: only the
\* second is recorded
C14_Witness ==
    /\ last.op = "line"
    /\ last.line = Line("object", <<Entry("Err", "0x0001", IntValue(40)),
                                    Entry("Ok", "0x0002", IntValue(40))>>)
    /\ beacon1_distances = <<>>
    /\ beacon2_distances = <<<<clock, Rat(2, 5)>>>>

\* a line that is not JSON, or JSON of another shape than a ranging block,
\* or a block without any entry that has status Ok and a number as D_cm
NothingUsable(line) ==
    \/ line.kind \in {"text", "scalar", "no_results", "results_scalar"}
    \/ /\ line.kind = "object"
       /\ \A i \in 1..Len(line.results) :
             \/ ~line.results[i].object
             \/ line.results[i].Status # "Ok"
             \/ line.results[i].D_cm.type # "int"

\* C15: a line that is not JSON, or is JSON without the expected shape, or
\* whose results have a status other than Ok, is silently dropped: it
\* changes no window, no error is reported for it, and the reader goes on
\* to the next line.
C15_UnusableLineSilentlyDropped ==
    [][(LineHandled /\ NothingUsable(last'.line)) =>
          /\ UNCHANGED aggVars
          /\ sink'.errors = sink.errors
          /\ reader'.pc = "r_loop"]_vars

(***************************************************************************)
(* Further properties of the running system, under SystemSpec.             *)
(***************************************************************************)
\* C16: when the tag process exits on its own while the collector is marked
\* running, the exit shows in the collector's liveness state: once the
\* reader has seen the end of the stream the collector no longer reports
\* itself as running.
C16_ExitClearsRunning ==
    (tag_collector.thread = "started" /\ reader.pc = "r_done")
        => ~tag_collector.running

\* stop() has been called and has executed its first statement
StopCalled ==
    main.pc \in {"c_terminate", "c_join", "stop_beacons", "stopped", "stop_failed"}

\* the main thread is inside a tick
InTick ==
    main.pc \in {"avg_time", "avg_check", "avg_front", "avg_pop", "avg_empty",
                 "avg_latest", "avg_sum", "avg_len", "report", "count1",
                 "count2", "reported"}

\* the state of the positioning loop
LoopState ==
    IF system.running THEN "Running"
    ELSE IF StopCalled THEN "Stopped" ELSE "Idle"

\* what every step keeps, whatever moves the loop's state may make: ticks
\* run only while Running, a called stop() leaves the loop Stopped, and
\* Stopped is never left
LoopStepRules ==
    /\ InTick' => LoopState' = "Running"
    /\ StopCalled' => LoopState' = "Stopped"
    /\ LoopState = "Stopped" => (LoopState' = "Stopped" /\ ~InTick')

C18_OneNowPerTick ==
    [][(main.pc = "avg_time" /\ main.beacon_num = 2 /\ main'.pc = "avg_check")
          => main'.current_time = main.current_time]_vars

\* both averages are numbers and the solver has returned None
UnsolvableTick ==
    /\ TickReported
    /\ IsNumber(main.dist1) /\ IsNumber(main.dist2)
    /\ TickPosition = None

\* why the solver has returned None (the configured beacons do not coincide)
TickCause ==
    IF RSign(main.dist1) <= 0 \/ RSign(main.dist2) <= 0
    THEN "non-positive distance" ELSE "geometrically inconsistent"

\* C19: when both averages are available and the solver returns None, the
\* tick's diagnostic report tells distances that are geometrically
\* inconsistent from the other causes of an unsolvable result.
C19_DiagnosticTellsCause ==
    UnsolvableTick =>
        /\ sink.report # None
        /\ "cause" \in DOMAIN sink.report
        /\ sink.report.cause = TickCause

(***************************************************************************)
(* Construction, under ConfigSpec.                                         *)
(***************************************************************************)
\* C21: an invalid configuration (here an averaging window that is not
\* positive) is rejected at construction: no collector exists that was
\* constructed with one, and so no call is ever served under one
C21_InvalidConfigurationRejected ==
    tag_collector # None => tag_collector.averaging_window > 0

(***************************************************************************)
(* The order of DistanceCollector.stop, under SystemSpec.                  *)
(***************************************************************************)
\* the main thread is at thread.join() (line 65) with a reader to wait for
JoinStarted == main.pc = "c_join" /\ tag_collector.thread # "None"

\* C22: in stop() the process is signalled to terminate before the reader is
\* joined: whenever the join of the reader has started, terminate() has
\* been sent to the process (and wait() has returned, so it has exited)
C22_TerminateBeforeJoin == JoinStarted => tag_collector.process = "exited"

\* the join has started while the reader is still blocked in readline()
C22_Witness ==
    /\ JoinStarted
    /\ tag_collector.process = "exited"
    /\ reader.pc = "r_read"

(***************************************************************************)
(* Who writes the windows, under SystemSpec.                               *)
(***************************************************************************)
\* a step of the main thread inside a tick (_report_position and what it calls)
TickStepTaken == InTick /\ main' # main

\* C23: the windows are written by the reader only: no step of a tick (the
\* two averages, the two counts, the emit) changes any anchor's window
C23_TickLeavesWindowsUnchanged == [][TickStepTaken => UNCHANGED aggVars]_vars

(***************************************************************************)
(* The windows and the samples received, under SystemSpec.                 *)
(***************************************************************************)
\* list is what is left of history after some samples were taken off its front
IsSuffix(list, history) ==
    /\ Len(list) <= Len(history)
    /\ list = SubSeq(history, Len(history) - Len(list) + 1, Len(history))

\* C24: in every reachable state, whatever the reader and the tick have
\* interleaved, each anchor's window is a contiguous suffix of the samples
\* recorded for that anchor, in the order they were received
C24_WindowIsSuffixOfReceived ==
    \A n \in BeaconNums : IsSuffix(distance_list(n), sink.appended[n])

\* an eviction has happened: anchor 1 has received two samples or more, its
\* window holds one, and a tick that averaged it is about to report
C24_Witness ==
    /\ Len(sink.appended[1]) >= 2
    /\ Len(beacon1_distances) = 1
    /\ main.pc = "report"
    /\ main.dist1 # None

(***************************************************************************)
(* The period of the ticks, under SystemSpec.                              *)
(***************************************************************************)
\* the loop has entered Running and has not ticked yet
BeforeFirstTick ==
    main.pc = "loop" /\ system.running /\ main.last_report_time = 0

\* a tick is running that is not the first: last_report_time is the instant
\* the tick before it started at, loop_time the instant this one started at
LaterTick == InTick /\ main.last_report_time # 0

\* C26: ticks run on the period P = REPORT_INTERVAL_SECONDS: the first tick
\* is due as soon as the loop is Running, and a tick starts P or more after
\* the tick before it
C26_TicksOnPeriod ==
    /\ BeforeFirstTick => ENABLED LoopIteration
    /\ LaterTick =>
         main.loop_time - main.last_report_time >= REPORT_INTERVAL_SECONDS

\* a second tick is running
C26_Witness == LaterTick /\ main.pc = "report"

(***************************************************************************)
(* What an eviction removes, under SystemSpec.                             *)
(***************************************************************************)
\* the reader's clean-up pops: the sample it removes and its cutoff
ReaderPops == reader.pc = "r_pop" /\ reader'.pc = "r_check"
ReaderPopped == distance_list(reader.todo[1][1])[1]
ReaderCutoff == reader.timestamp - AVERAGING_WINDOW_SECONDS

\* the tick's clean-up pops: the sample it removes and its cutoff
TickPops == main.pc = "avg_pop" /\ main'.pc = "avg_check"
TickPopped == distance_list(main.beacon_num)[1]
TickCutoff == main.current_time - AVERAGING_WINDOW_SECONDS

\* C28: under every interleaving of the reader's record with a tick's
\* average, an eviction removes only samples older than the cutoff of the
\* operation that performs it (so never the sample just recorded, which is
\* inside the window)
C28_EvictsOnlyOlderThanCutoff ==
    [][/\ ReaderPops => ReaderPopped[1] < ReaderCutoff
       /\ TickPops => TickPopped[1] < TickCutoff]_vars

(***************************************************************************)
(* The counts of a position report, under SystemSpec.                      *)
(***************************************************************************)
\* the tick has logged a position report
PositionReported ==
    /\ TickReported
    /\ sink.report # None
    /\ sink.report.kind = "position"

\* C29: in every position report each anchor's sample count is the number
\* of samples that were averaged for that anchor's distance in the same
\* tick, also when the reader records samples while the tick runs
C29_CountIsNumberAveraged ==
    PositionReported =>
        /\ sink.report.n1 = main.averaged[1]
        /\ sink.report.n2 = main.averaged[2]

(***************************************************************************)
(* The message ids of a reporter, under ReporterSpec.                      *)
(***************************************************************************)
\* C25: across any sequence of send_position_data, send_distance_measurements
\* and send_status calls on one reporter, whatever failures and disconnected
\* periods lie in between, the messages sent successfully carry the
\* messageId values 0, 1, 2, ... in this order, with no repeat and no gap
C25_MessageIdsCountUp ==
    \A i \in 1..Len(reporter.hub) : reporter.hub[i].messageId = i - 1

\* messages of two types have been sent and a send has just failed on a
\* connected reporter
C25_Witness ==
    /\ Len(reporter.hub) >= 2
    /\ reporter.hub[1].messageType # reporter.hub[2].messageType
    /\ reporter.connected
    /\ last.op \in {"send_position_data", "send_distance_measurements",
                    "send_status"}
    /\ last.result = FALSE

(***************************************************************************)
(* The end of DistanceCollector.stop, under ShutdownSpec.                  *)
(***************************************************************************)
\* stop() of the collector has cleared running and is about to terminate the
\* process; it has returned
CollectorStopCalled == main.pc = "c_terminate"
CollectorStopDone == main.pc = "stop_beacons"

\* the reader thread has been started: it is blocked in a read, or handling
\* a line, or has finished
ReaderStarted == tag_collector.thread = "started"

\* C27: stop() eventually returns: once the process has been terminated the
\* reader's blocking read returns, the reader leaves its loop and the join
\* completes, wherever the reader was (blocked in a read, in the middle of a
\* line) when stop() was called
C27_StopReturns == (CollectorStopCalled /\ ReaderStarted) ~> CollectorStopDone

\* stop() is called while the reader is blocked in readline() on a running
\* process, and while it is in the middle of recording a line
C27_Witness ==
    /\ CollectorStopCalled
    /\ ReaderStarted
    /\ tag_collector.process = "running"
    /\ reader.pc = "r_read"

C27_WitnessHandling ==
    /\ CollectorStopCalled
    /\ reader.pc \in {"r_append", "r_check", "r_front", "r_pop"}

(***************************************************************************)
(* Completeness of the solver, under FloatSolverSpec.                      *)
(***************************************************************************)
\* the circles of radius dist1 and dist2 around beacons 2 m apart meet:
\* |dist1 - dist2| <= 2 <= dist1 + dist2, of the values the floats have
CirclesMeet(dist1, dist2) ==
    /\ FCmp(ExactAdd(dist1, dist2), FromInt(2)) >= 0
    /\ FCmp(FAbs(ExactAdd(dist1, FNeg(dist2))), FromInt(2)) <= 0

\* C30: with the beacons at (0,0) and (2,0), for every dist1 > 0 and
\* dist2 > 0 with |dist1 - dist2| <= 2 <= dist1 + dist2, the circles that
\* touch included, the solver returns a position
C30_SolverComplete ==
    (/\ calc.called
     /\ calc.dist1.sgn > 0
     /\ calc.dist2.sgn > 0
     /\ CirclesMeet(calc.dist1, calc.dist2)) => calc.position # None

(***************************************************************************)
(* Properties of the reporter's send methods under ReporterSpec.           *)
(***************************************************************************)
SendOps == {"send_position_data", "send_distance_measurements", "send_status"}

\* this step is a call of one of the three send methods
SendCalled == last'.op \in SendOps

\* C31: a send method called on a reporter that is not connected returns
\* False, does not call send_message, and leaves message_count and what the
\* hub has received unchanged
C31_UnconnectedSendDoesNothing ==
    [][(SendCalled /\ ~reporter.connected) =>
          /\ last'.result = FALSE
          /\ ~last'.handed
          /\ reporter'.message_count = reporter.message_count
          /\ reporter'.hub = reporter.hub]_vars

\* a send has returned False on a reporter that had been connected, had
\* sent a message, and is not connected any more
C31_Witness ==
    /\ last.op \in SendOps
    /\ ~reporter.connected
    /\ reporter.client # "None"
    /\ reporter.message_count > 0
    /\ last.result = FALSE
    /\ ~last.handed

\* this step is a send call in which send_message raises
SendMessageFails ==
    \/ SendPositionData(FALSE, TRUE)
    \/ SendDistanceMeasurements(FALSE, TRUE)
    \/ SendStatus(FALSE, TRUE)

\* the call before this state was a send on a connected reporter in which
\* send_message raised
SendMessageFailed ==
    /\ last.op \in SendOps
    /\ last.handed
    /\ last.result = FALSE

\* C32: a send call on a connected reporter in which send_message raises
\* returns False, the error stays inside, message_count and connected are as
\* before and the hub has received nothing; a send that goes through right
\* after it carries the messageId the failed one had
C32_FailedSendKeepsCount ==
    [][/\ (reporter.connected /\ SendMessageFails) =>
            /\ last'.result = FALSE
            /\ reporter'.message_count = reporter.message_count
            /\ reporter'.connected
            /\ reporter'.hub = reporter.hub
       /\ (SendMessageFailed /\ SendCalled /\ last'.result = TRUE) =>
            /\ Len(reporter'.hub) = Len(reporter.hub) + 1
            /\ reporter'.hub[Len(reporter'.hub)].messageId = reporter.message_count]_vars

\* send_message has raised on a connected reporter that had sent a message
C32_Witness ==
    /\ SendMessageFailed
    /\ reporter.connected
    /\ reporter.message_count > 0

(***************************************************************************)
(* Properties of the connected flag under ReporterSpec.                    *)
(***************************************************************************)
\* this step is a connect() that returns
ConnectSucceeds == Connect("returns")

\* this step is a connect() in which the SDK raises
ConnectFails == Connect("create_raises") \/ Connect("connect_raises")

\* this step is a disconnect() whose client.disconnect() returns
DisconnectSucceeds ==
    /\ reporter.client # "None"
    /\ reporter.connected
    /\ Disconnect(TRUE)

\* this step is a disconnect() on a reporter that is not connected
DisconnectUnconnected ==
    /\ ~reporter.connected
    /\ \E returns \in BOOLEAN : Disconnect(returns)

\* C33: connected is True exactly from a connect() that returns until the
\* next disconnect() that goes through: only the first sets it, only the
\* second clears it; a connect() that fails leaves it False and raises, and
\* disconnect() on a reporter that is not connected changes nothing
C33_ConnectedFromConnectToDisconnect ==
    [][/\ reporter'.connected = IF ConnectSucceeds THEN TRUE
                                ELSE IF DisconnectSucceeds THEN FALSE
                                ELSE reporter.connected
       /\ ConnectFails => ~reporter'.connected /\ last'.result = "raises"
       /\ DisconnectUnconnected => reporter' = reporter]_vars

\* the parts of C33 about a connect() on a reporter that is not connected,
\* a failing connect() and disconnect()
C33_HoldsFromUnconnected ==
    [][/\ (~reporter.connected \/ ~ConnectFails) =>
             reporter'.connected = IF ConnectSucceeds THEN TRUE
                                   ELSE IF DisconnectSucceeds THEN FALSE
                                   ELSE reporter.connected
       /\ ConnectFails => ~reporter'.connected /\ last'.result = "raises"
       /\ DisconnectUnconnected => reporter' = reporter]_vars

(***************************************************************************)
(* Properties of the serial collector under SerialSpec.                    *)
(***************************************************************************)
\* this step is one turn of start_tag's loop, on a line the device sent
TagLineRead == last'.op = "tag_line"

\* C34: whatever line the device sends, parse_ranging_data returns parsed
\* data or None, no exception leaves it, and the collection loop of
\* start_tag is still running after the line
C34_NoLineEndsCollection ==
    [][TagLineRead =>
          /\ "raises" \notin DOMAIN last'.result
          /\ collector'.pc = "collecting"]_vars

\* the line is a JSON object with the keys "Block" and "results"
IsBlockLine(line) == line.kind \in {"object", "results_scalar"} /\ line.Block

\* one <<anchor, D_cm / 100>> per result with Status Ok, Addr 0x0001 or
\* 0x0002 and a number as D_cm, in the order of the results
RECURSIVE RangingSamples(_)
RangingSamples(results) ==
    IF results = <<>> THEN <<>>
    ELSE LET result == Head(results)
         IN  (IF /\ result.object
                 /\ result.Status = "Ok"
                 /\ result.Addr \in {"0x0001", "0x0002"}
                 /\ result.D_cm.type = "int"
              THEN <<<<IF result.Addr = "0x0001" THEN 1 ELSE 2,
                       distance_m(result.D_cm.val)>>>>
              ELSE <<>>) \o RangingSamples(Tail(results))

\* what this step of the collector has printed
PrintedNow ==
    SubSeq(collector'.printed, Len(collector.printed) + 1, Len(collector'.printed))

\* C35: for a device line that is a JSON object with "Block" and "results",
\* the samples the supervisor's reader records from what the collector
\* prints for it (the block re-emitted, or the line echoed behind "RAW: ")
\* are the samples it records from the line itself: one per result with
\* Status Ok and Addr 0x0001 or 0x0002, in order
C35_PipelineFaithful ==
    [][(TagLineRead /\ IsBlockLine(last'.line)) =>
          /\ recorded_from(PrintedNow) = line_outcome(last'.line).todo
          /\ recorded_from(PrintedNow) =
                IF last'.line.kind = "object"
                THEN RangingSamples(last'.line.results) ELSE <<>>]_vars

(***************************************************************************)
(* Shutdown after an interrupted start, under SystemSpec.                  *)
(***************************************************************************)
\* PositioningSystem.stop() has returned
SystemStopReturned == main.pc = "stopped"

\* a process that was launched has been terminated and waited for
CleanedUp(process) == process \in {"None", "exited"}

\* C36: after PositioningSystem.stop() has returned, every subprocess that
\* start() had launched (beacon 1, beacon 2, tag) has been terminated and
\* waited for, and the reader thread, if there is one, has finished -
\* wherever start() was when the interrupt came
C36_StopCleansUp ==
    SystemStopReturned =>
        /\ CleanedUp(system.beacon1_process)
        /\ CleanedUp(system.beacon2_process)
        /\ CleanedUp(tag_collector.process)
        /\ tag_collector.thread # "None" => reader.pc = "r_done"

(***************************************************************************)
(* Properties of the animator under AnimatorSpec.                          *)
(***************************************************************************)
\* get_position() has just been called on an animator that was started
PositionAsked ==
    /\ last.op = "get_position"
    /\ animator # None
    /\ animator.start_time # None

\* C37: on every animator the constructor accepts (one keyframe or more,
\* pause_seconds >= 0, forward-only or back-and-forth), every get_position()
\* after start() returns an (x, y) pair and raises nothing, also when the
\* animation's duration is 0
C37_GetPositionReturns ==
    PositionAsked =>
        /\ "position" \in DOMAIN last.result
        /\ IsNumber(last.result.position[1])
        /\ IsNumber(last.result.position[2])

====
